---- MODULE Spec2Model ----
(***************************************************************************)
(* Natural-language decoding tutorial (src/unnamed/part_000).              *)
(*                                                                         *)
(* Two pipelines of the notebook are modelled:                             *)
(*   Spec      the leave-one-subject-out linear decoder (lines 448-459,    *)
(*             711-755);                                                   *)
(*   SpecText  transcript concatenation, word lookup and temporal          *)
(*             resampling (lines 545-602, 682-701).                        *)
(*                                                                         *)
(* Conventions.  Python indices start at 0, the sequences here at 1: a     *)
(* subject, a time point or a column k of the code is k+1 here.  A row of  *)
(* a subject matrix has a single region of interest and is written as the  *)
(* integer it holds; a row of the target has two embedding dimensions.     *)
(* Real numbers are exact fractions <<num, den>> with den > 0.             *)
(***************************************************************************)
EXTENDS Integers, Sequences, FiniteSets, Bags, TLC

\* Number of participants (22 in the data set).
NSub == 3
\* The number of time points the decoder loop is written for (the literal
\* 1310 of lines 727-731, 746, 753), scaled down.
NTR == 3
\* The rank threshold n_top of line 717 (10 in the notebook), scaled down.
n_top == 1

\* No exception.
None == "None"
\* A name that is not bound yet: a matrix, a list or a fitted model.
Unset == <<>>
NoModel == [coef_ |-> <<>>, intercept_ |-> <<>>]
\* The float NaN: a value apart from every number of the model; no
\* arithmetic is ever applied to it.
NaN == 0 - 1000000

(***************************************************************************)
(* Arithmetic helpers                                                      *)
(***************************************************************************)
Abs(x) == IF x < 0 THEN -x ELSE x

RECURSIVE GcdNat(_, _)
GcdNat(a, b) == IF b = 0 THEN a ELSE GcdNat(b, a % b)

Gcd(a, b) == GcdNat(Abs(a), Abs(b))

RECURSIVE SumTo(_, _)
\* f[1] + ... + f[n]
SumTo(f, n) == IF n = 0 THEN 0 ELSE f[n] + SumTo(f, n - 1)

SeqSum(s) == SumTo(s, Len(s))

RECURSIVE ProdExcept(_, _, _)
\* the product of f[k], k in 1..n, k # skip
ProdExcept(f, n, skip) ==
    IF n = 0 THEN 1
    ELSE (IF n = skip THEN 1 ELSE f[n]) * ProdExcept(f, n - 1, skip)

\* A fraction in lowest terms with a positive denominator.
Frac(n, d) ==
    LET g == Gcd(n, d)
        s == IF d < 0 THEN -1 ELSE 1
    IN  <<(s * n) \div g, (s * d) \div g>>

\* p + q over the least common denominator.
FracAdd(p, q) ==
    LET g == Gcd(p[2], q[2])
    IN  Frac(p[1] * (q[2] \div g) + q[1] * (p[2] \div g), (p[2] \div g) * q[2])
FracMulInt(p, k) == Frac(p[1] * k, p[2])

\* The float NaN among the fractions: 0/0.
FNaN == <<0, 0>>
IsNaNF(q) == q[2] = 0

RECURSIVE Flatten(_)
\* np.concatenate of a list of row blocks
Flatten(blocks) ==
    IF blocks = <<>> THEN <<>> ELSE Head(blocks) \o Flatten(Tail(blocks))

Reverse(s) == [k \in 1..Len(s) |-> s[Len(s) + 1 - k]]

Range(s) == {s[k] : k \in 1..Len(s)}

\* np.random.permutation(n): any arrangement of 1..n.
permutation(n) ==
    {f \in [1..n -> 1..n] : \A i, j \in 1..n : i # j => f[i] # f[j]}

(***************************************************************************)
(* Decoder: state                                                          *)
(***************************************************************************)
VARIABLES
    sub_data,         \* per subject, the rows read from its three run files
    target_z,         \* zscore(paranoia_embedding, axis=0), the shared target
    numpy_ragged,     \* what np.array does with rows of unequal length
    argsort_ties,     \* the order argsort gives equal similarities
    fmri_data,        \* line 459
    X, Y,             \* lines 714-715
    pc,               \* position in the decoder
    err,              \* the exception that ended the run, or None
    train_index, test_index,
    X_train, y_train, X_test,
    reg, y_pred, similarity, hit,
    test_hit, test_similarity, map_coef,
    split_print,      \* the "TRAIN sub: ... TEST sub: ..." lines printed
    acc_print,        \* the per-fold "Test decoding acc." lines printed
    avg_print         \* the "Average acc." line printed

dvars == <<sub_data, target_z, numpy_ragged, argsort_ties, fmri_data, X, Y, pc, err,
           train_index, test_index, X_train, y_train, X_test, reg, y_pred,
           similarity, hit, test_hit, test_similarity, map_coef, split_print,
           acc_print,
           avg_print>>

(***************************************************************************)
(* Transcript pipeline: state                                              *)
(***************************************************************************)
VARIABLES
    run_files,            \* the three transcript files, one list of rows each
    pre_glove_100,        \* the embedding table, token -> vector
    tpc,                  \* position in the transcript pipeline
    terr,                 \* the exception that ended the pipeline, or None
    run,                  \* loop variable of line 551
    transcript_runs,      \* paranoia_transcript while it is a list (550-560)
    paranoia_transcript,  \* the concatenated transcript (562-564)
    row_i,                \* number of rows the loop of line 581 has processed
    word_embedding,       \* the list of lines 578-597
    error_keys,
    word_time,
    word_embedding_df,    \* word_embedding as rebound by line 602
    paranoia_embedding    \* line 701

tvars == <<run_files, pre_glove_100, tpc, terr, run, transcript_runs,
           paranoia_transcript, row_i, word_embedding, error_keys, word_time,
           word_embedding_df, paranoia_embedding>>

(***************************************************************************)
(* Scrambling baseline: state                                              *)
(***************************************************************************)
VARIABLES
    bpc,                      \* position in the baseline cell
    word_embedding_scram,     \* lines 811-812
    paranoia_embedding_scram  \* line 815

bvars == <<bpc, word_embedding_scram, paranoia_embedding_scram>>

VARIABLES
    iter,            \* number of passes of the loop of line 808 completed
    scram_hit,       \* line 821
    scram_hit_iter,  \* line 807
    scram_print,     \* the "Average acc." line of line 844
    scram_points,    \* the points of the scatter plot of line 852
    actual_bar       \* the height of the 'Actual' bar of line 854

svars == <<iter, scram_hit, scram_hit_iter, scram_print, scram_points,
           actual_bar>>

(***************************************************************************)
(* Words in context: state                                                 *)
(***************************************************************************)
VARIABLES
    cpc,                         \* position in the context cells
    word_embedding_context,      \* the list of lines 882-891
    word_embedding_context_df,   \* the same name as rebound by line 893
    paranoia_embedding_context,  \* line 896
    context_hit,                 \* line 949
    context_print,               \* the "Average acc." line of line 976
    reg_coef_image               \* line 998

cvars == <<cpc, word_embedding_context, word_embedding_context_df,
           paranoia_embedding_context, context_hit, context_print,
           reg_coef_image>>

(***************************************************************************)
(* Running the decoder cell again                                          *)
(***************************************************************************)
VARIABLES
    first_run    \* what the first run of the decoder cell printed and counted

\* Before the decoder cell has completed a run.
NoRun ==
    [done |-> FALSE, split_print |-> <<>>, acc_print |-> <<>>,
     test_hit |-> <<>>]

(***************************************************************************)
(* The order of the folds                                                  *)
(***************************************************************************)
VARIABLES
    fold_order   \* the k-th pass of the loop of line 725 holds out
                 \* subject fold_order[k]

\* LOO.split yields the folds in ascending order of the held-out subject.
Ascending == [k \in 1..NSub |-> k]

(***************************************************************************)
(* Embedding loader: state                                                 *)
(***************************************************************************)
VARIABLES
    glove_lines,   \* the lines of the embedding resource, each the list of
                   \* the fields a single blank separates
    ends_newline,  \* the resource's text ends with a newline
    via_http,      \* the branch of line 497: requests.get, or open
    lpc,           \* position in get_glove_model
    lerr,          \* the exception that ended the load, or None
    line_no        \* number of lines the loop has gone through

lvars == <<glove_lines, ends_newline, via_http, lpc, lerr, line_no>>

(***************************************************************************)
(* Functional alignment: state                                             *)
(***************************************************************************)
VARIABLES
    part_files,   \* for each scan, the subjects whose file is on the disk
    dir_order,    \* the order in which the file system lists the subjects
    apc,          \* position in the alignment cells
    aerr,         \* the exception that ended them, or None
    file_list,    \* lines 87 and 262
    all_data,     \* lines 88-93 and 263-268
    hyperalign,   \* line 104
    new_data,     \* line 231
    aligned_sub_hyperalignment,   \* line 235
    s16_pt1_hyp_transformed,      \* lines 272-274
    hyperalign_transformed        \* lines 280-284

avars == <<part_files, dir_order, apc, aerr, file_list, all_data, hyperalign,
           new_data, aligned_sub_hyperalignment, s16_pt1_hyp_transformed,
           hyperalign_transformed>>

\* The alignment cells not run.
AlignIdle ==
    /\ part_files = Unset /\ dir_order = Unset
    /\ apc = "Off" /\ aerr = None
    /\ file_list = Unset /\ all_data = Unset /\ hyperalign = Unset
    /\ new_data = Unset /\ aligned_sub_hyperalignment = Unset
    /\ s16_pt1_hyp_transformed = Unset /\ hyperalign_transformed = Unset

\* get_glove_model not called.
LoaderIdle ==
    /\ glove_lines = <<>> /\ ends_newline = TRUE /\ via_http = FALSE
    /\ lpc = "Off" /\ lerr = None /\ line_no = 0

vars == <<dvars, tvars, bvars, svars, cvars, first_run, fold_order, lvars,
                   avars>>

\* What the decoder cell leaves alone, what the transcript cells do, and
\* what the baseline cell does before its decoding.
outsideDecoder == <<tvars, bvars, svars, cvars, first_run, fold_order, lvars,
                   avars>>
outsideText == <<dvars, bvars, svars, cvars, first_run, fold_order, lvars,
                   avars>>
outsideBaseline == <<dvars, tvars, svars, cvars, first_run, fold_order, lvars,
                   avars>>

\* The baseline's decoding and the context cells not run.
CellsIdle ==
    /\ iter = 0 /\ scram_hit = Unset /\ scram_hit_iter = Unset
    /\ scram_print = Unset /\ scram_points = Unset /\ actual_bar = Unset
    /\ cpc = "Off"
    /\ word_embedding_context = Unset /\ word_embedding_context_df = Unset
    /\ paranoia_embedding_context = Unset
    /\ context_hit = Unset /\ context_print = Unset
    /\ reg_coef_image = Unset

\* Nor the alignment cells.
LaterIdle == CellsIdle /\ AlignIdle

\* The baseline cell not run.
BaselineIdle ==
    /\ LaterIdle
    /\ bpc = "Off"
    /\ word_embedding_scram = Unset /\ paranoia_embedding_scram = Unset

\* The transcript pipeline at rest, while the decoder alone is looked at.
TextIdle ==
    /\ run_files = Unset /\ pre_glove_100 = Unset
    /\ tpc = "Off" /\ terr = None /\ run = 0
    /\ transcript_runs = Unset /\ paranoia_transcript = Unset
    /\ row_i = 0 /\ word_embedding = Unset /\ error_keys = Unset
    /\ word_time = Unset /\ word_embedding_df = Unset
    /\ paranoia_embedding = Unset

(***************************************************************************)
(* Decoder: inputs                                                         *)
(***************************************************************************)
XPatterns == {"odd", "even", "first", "flat"}

\* The time course of one region: t rows with values in {0, 1}.
XSeries(p, t) ==
    [r \in 1..t |->
        CASE p = "odd"   -> r % 2
          [] p = "even"  -> (r + 1) % 2
          [] p = "first" -> IF r = 1 THEN 1 ELSE 0
          [] p = "flat"  -> 0]

YPatterns == {<<"up", "rot">>, <<"down", "rot">>, <<"rot", "up">>}

Ramp(r, t) == 2 * r - (t + 1)

YColumn(c, r, t) ==
    CASE c = "up"   -> Ramp(r, t)
      [] c = "down" -> -Ramp(r, t)
      [] c = "rot"  -> Ramp((r % t) + 1, t)

\* scipy.stats.zscore(axis=0) output with t rows.  Every column is a
\* permutation of the same ramp, so all columns have mean 0 and one common
\* standard deviation: the matrix is the z-scored matrix times one positive
\* factor, which neither the regression's predictions' directions nor the
\* cosine similarities depend on.  A single row z-scores to NaN (0/0).
YMatrix(p, t) ==
    IF t = 1 THEN << <<NaN, NaN>> >>
    ELSE [r \in 1..t |-> <<YColumn(p[1], r, t), YColumn(p[2], r, t)>>]

(***************************************************************************)
(* Decoder: the library calls and the loop body, lines 725-749             *)
(***************************************************************************)
\* A split that forgets to leave the test sample out of the training set.
LOOSplit_keepsTest(n, f) ==
    [train |-> [k \in 1..n |-> k],
     test  |-> <<f>>]

\* LeaveOneOut().split over n samples, fold f: the test sample is f alone,
\* the training samples are all the others in ascending order.
LOOSplit(n, f) ==
    [train |-> SelectSeq([k \in 1..n |-> k], LAMBDA k : k # f),
     test  |-> <<f>>]

\* A loop that stops one fold early.
FoldsRemain_oneShort == Len(test_hit) < NSub - 1

\* The loop of line 725 has another fold to run.
FoldsRemain == Len(test_hit) < NSub

\* np.array of the per-subject matrices gives a 3-d array only when all
\* have the same number of rows.
Ragged(data) == \E s \in 1..Len(data) : Len(data[s]) # Len(data[1])

\* "lhs[a:b, :] = value" on a block of NTR rows: numpy copies value when it
\* has NTR rows, repeats it when it has one row, and raises otherwise.
Assignable(value) == Len(value) = NTR \/ Len(value) = 1

Broadcast(value) ==
    IF Len(value) = NTR THEN value ELSE [r \in 1..NTR |-> value[1]]

ZeroRowsX(n) == [r \in 1..n |-> 0]
ZeroRowsY(n) == [r \in 1..n |-> <<0, 0>>]

\* A slice that starts one row late and leaves the first row of every
\* block unfilled.
BlockRows_lateStart(i) == ((i - 1) * NTR + 2)..(i * NTR)

\* The rows i*1310 .. (i+1)*1310 - 1 of the code, for the i-th training
\* subject (i counted from 1 here).
BlockRows(i) == ((i - 1) * NTR + 1)..(i * NTR)

\* M[i*1310:(i+1)*1310, :] = value
AssignBlock(M, i, value) ==
    [r \in 1..Len(M) |->
        IF r \in BlockRows(i) THEN Broadcast(value)[r - (i - 1) * NTR]
        ELSE M[r]]

\* Lines 727-731 when no assignment raises: X_train and y_train start as
\* zeros and the inner loop fills one block per training subject.
FillX(data, idx) ==
    LET F[i \in 0..Len(idx)] ==
            IF i = 0 THEN ZeroRowsX(NTR * Len(idx))
            ELSE AssignBlock(F[i - 1], i, data[idx[i]])
    IN  F[Len(idx)]

FillY(target, idx) ==
    LET F[i \in 0..Len(idx)] ==
            IF i = 0 THEN ZeroRowsY(NTR * Len(idx))
            ELSE AssignBlock(F[i - 1], i, target)
    IN  F[Len(idx)]

\* The exception lines 727-731 raise in their first pass, or None.
BuildError(data, target) ==
    IF Ragged(data) THEN "IndexError"
    ELSE IF ~Assignable(data[1]) THEN "ValueError"
    ELSE IF ~Assignable(target) THEN "ValueError"
    ELSE None

HasNaN(m) == \E r \in 1..Len(m) : \E d \in 1..Len(m[r]) : m[r][d] = NaN

\* LinearRegression().fit for one regressor and an intercept: the least
\* squares slope and intercept of every target dimension, as fractions.
\* With a constant regressor the minimum-norm solution has slope 0.
LinearRegressionFit(Xt, yt) ==
    LET n   == Len(Xt)
        D   == Len(yt[1])
        Sx  == SeqSum(Xt)
        Sxx == n * SeqSum([i \in 1..n |-> Xt[i] * Xt[i]]) - Sx * Sx
        Sy  == [d \in 1..D |-> SeqSum([i \in 1..n |-> yt[i][d]])]
        Sxy == [d \in 1..D |->
                  n * SeqSum([i \in 1..n |-> Xt[i] * yt[i][d]]) - Sx * Sy[d]]
    IN  IF Sxx = 0
        THEN [coef_      |-> [d \in 1..D |-> <<0, 1>>],
              intercept_ |-> [d \in 1..D |-> Frac(Sy[d], n)]]
        ELSE [coef_      |-> [d \in 1..D |-> Frac(Sxy[d], Sxx)],
              intercept_ |-> [d \in 1..D |->
                                Frac(Sy[d] * Sxx - Sxy[d] * Sx, n * Sxx)]]

\* reg.predict: intercept + coef * x for every row and dimension.
Predict(r, Xt) ==
    [t \in 1..Len(Xt) |->
        [d \in 1..Len(r.coef_) |->
            FracAdd(r.intercept_[d], FracMulInt(r.coef_[d], Xt[t]))]]

\* The integer vector with the direction of a vector of fractions.
Direction(v) ==
    LET dens == [d \in 1..Len(v) |-> v[d][2]]
        w    == [d \in 1..Len(v) |-> v[d][1] * ProdExcept(dens, Len(v), d)]
        gg   == LET F[k \in 0..Len(v)] ==
                        IF k = 0 THEN 0 ELSE Gcd(F[k - 1], w[k])
                IN  F[Len(v)]
    IN  IF gg = 0 THEN w ELSE [d \in 1..Len(v) |-> w[d] \div gg]

Dot(a, b) == SeqSum([d \in 1..Len(a) |-> a[d] * b[d]])

\* One entry of cosine_similarity: <<a, A, B>> stands for a / sqrt(A * B);
\* a vector of norm 0 has similarity 0 with everything.
CosEntry(p, y) ==
    IF Dot(p, p) = 0 \/ Dot(y, y) = 0 THEN <<0, 1, 1>>
    ELSE <<Dot(p, y), Dot(p, p), Dot(y, y)>>

cosine_similarity(P, Yt) ==
    [t \in 1..Len(P) |->
        [u \in 1..Len(Yt) |-> CosEntry(Direction(P[t]), Yt[u])]]

\* e1 < e2 as real numbers.
SimLess(e1, e2) ==
    LET l == e1[1] * e1[1] * e2[2] * e2[3]
        r == e2[1] * e2[1] * e1[2] * e1[3]
    IN  CASE e1[1] < 0 /\ e2[1] >= 0  -> TRUE
          [] e1[1] >= 0 /\ e2[1] < 0  -> FALSE
          [] e1[1] >= 0 /\ e2[1] >= 0 -> l < r
          [] OTHER                    -> l > r

SimEq(e1, e2) == ~SimLess(e1, e2) /\ ~SimLess(e2, e1)

\* A sort that orders equal values differently from one run to the next.
TieOrder_perRun == IF first_run.done THEN "descending" ELSE "ascending"

\* The order the installed sort routine gives to equal values.
TieOrder == argsort_ties

\* Column c1 comes before column c2 in row.argsort(): ascending by value;
\* the order of equal values is the sort routine's.
SortsBefore(row, c1, c2) ==
    \/ SimLess(row[c1], row[c2])
    \/ /\ c1 # c2
       /\ SimEq(row[c1], row[c2])
       /\ IF TieOrder = "ascending" THEN c1 < c2 ELSE c1 > c2

Argsort(row) ==
    [k \in 1..Len(row) |->
        CHOOSE c \in 1..Len(row) :
            Cardinality({b \in 1..Len(row) : SortsBefore(row, b, c)}) = k - 1]

\* s[:n], the first n elements: the lowest similarities instead of the
\* highest.
LastN_takesFirst(s, n) ==
    IF n >= Len(s) THEN s ELSE SubSeq(s, 1, n)

\* s[-n:], the last n elements (all of s when it has fewer).
LastN(s, n) ==
    IF n >= Len(s) THEN s ELSE SubSeq(s, Len(s) - n + 1, Len(s))

\* similarity[j,:].argsort()[-n_top:][::-1]
TopIndices(row) == Reverse(LastN(Argsort(row), n_top))

\* A count that goes on from the previous fold's.
HitStart_carried == hit

\* Line 741.
HitStart == 0

\* Lines 742-745: the number of times line 745 adds one to hit.
CountHits(sim) ==
    Cardinality({j \in 1..Len(sim) : j \in Range(TopIndices(sim[j]))})

(***************************************************************************)
(* Decoder: actions                                                        *)
(***************************************************************************)
\* The shapes the inputs can have: the subjects' numbers of rows and the
\* target's.
SubjectRows(shape, s) ==
    CASE shape = "match"  -> NTR
      [] shape = "one"    -> 1
      [] shape = "short"  -> NTR - 1
      [] shape = "ragged" -> IF s = 1 THEN NTR - 1 ELSE NTR

InitInputs(shape, ty, pats, ypat) ==
    /\ sub_data = [s \in 1..NSub |-> XSeries(pats[s], SubjectRows(shape, s))]
    /\ target_z = YMatrix(ypat, ty)

InitDecoder ==
    /\ \/ \E pats \in [1..NSub -> XPatterns], ypat \in YPatterns :
              /\ InitInputs("match", NTR, pats, ypat)
              /\ numpy_ragged = "error"
       \/ \E shape \in {"match", "one", "short", "ragged"},
             ty \in {NTR, NTR - 1, 1},
             pats \in [1..NSub -> {"odd", "even"}] :
              /\ ~(shape = "match" /\ ty = NTR)
              /\ InitInputs(shape, ty, pats, <<"up", "rot">>)
              /\ numpy_ragged \in {"error", "object"}
    /\ argsort_ties \in {"ascending", "descending"}
    /\ fmri_data = Unset /\ X = Unset /\ Y = Unset
    /\ pc = "Load" /\ err = None
    /\ train_index = Unset /\ test_index = Unset
    /\ X_train = Unset /\ y_train = Unset /\ X_test = Unset
    /\ reg = NoModel /\ y_pred = Unset /\ similarity = Unset /\ hit = 0
    /\ test_hit = <<>> /\ test_similarity = <<>> /\ map_coef = <<>>
    /\ split_print = <<>> /\ acc_print = <<>> /\ avg_print = Unset
    /\ first_run = NoRun

\* Lines 452-459: fmri_data = np.array(list of per-subject matrices).
LoadFmri ==
    /\ pc = "Load"
    /\ IF Ragged(sub_data) /\ numpy_ragged = "error"
       THEN /\ pc' = "Failed" /\ err' = "ValueError"
            /\ UNCHANGED fmri_data
       ELSE /\ fmri_data' = sub_data
            /\ pc' = "Idle" /\ UNCHANGED err
    /\ UNCHANGED <<sub_data, target_z, numpy_ragged, argsort_ties, X, Y,
                   train_index, test_index, X_train, y_train, X_test, reg,
                   y_pred, similarity, hit, test_hit, test_similarity,
                   map_coef, split_print, acc_print, avg_print, outsideDecoder>>

\* Line 720.
NewTestHit == <<>>

\* Lines 714-722.
Start ==
    /\ pc = "Idle"
    /\ X' = fmri_data
    /\ Y' = target_z
    /\ test_hit' = NewTestHit /\ test_similarity' = <<>> /\ map_coef' = <<>>
    /\ pc' = "TrainFold"
    /\ UNCHANGED <<sub_data, target_z, numpy_ragged, argsort_ties, fmri_data,
                   err, train_index, test_index, X_train, y_train, X_test,
                   reg, y_pred, similarity, hit, split_print, acc_print,
                   avg_print, outsideDecoder>>

\* Lines 725-736: the next split, the training matrices, the fit.
TrainFold ==
    /\ pc = "TrainFold"
    /\ LET split == LOOSplit(NSub, fold_order[Len(test_hit) + 1])
           n     == NTR * Len(split.train)
           e     == BuildError(X, Y)
       IN  /\ train_index' = split.train
           /\ test_index' = split.test
           /\ split_print' = Append(split_print, split)
           /\ IF e # None
              THEN /\ X_train' = IF Ragged(X) \/ ~Assignable(X[1])
                                 THEN ZeroRowsX(n)
                                 ELSE AssignBlock(ZeroRowsX(n), 1,
                                                  X[split.train[1]])
                   /\ y_train' = ZeroRowsY(n)
                   /\ pc' = "Failed" /\ err' = e
                   /\ UNCHANGED <<X_test, reg, map_coef>>
              ELSE /\ X_train' = FillX(X, split.train)
                   /\ y_train' = FillY(Y, split.train)
                   /\ X_test' = X[split.test[1]]
                   /\ IF HasNaN(y_train')
                      THEN /\ pc' = "Failed" /\ err' = "ValueError"
                           /\ UNCHANGED <<reg, map_coef>>
                      ELSE /\ reg' = LinearRegressionFit(X_train', y_train')
                           /\ map_coef' = Append(map_coef, reg'.coef_)
                           /\ pc' = "PredictFold" /\ UNCHANGED err
    /\ UNCHANGED <<sub_data, target_z, numpy_ragged, argsort_ties, fmri_data,
                   X, Y, y_pred, similarity, hit, test_hit, test_similarity,
                   acc_print, avg_print, outsideDecoder>>

\* Line 737.
PredictFold ==
    /\ pc = "PredictFold"
    /\ y_pred' = Predict(reg, X_test)
    /\ pc' = "ScoreFold"
    /\ UNCHANGED <<sub_data, target_z, numpy_ragged, argsort_ties, fmri_data,
                   X, Y, err, train_index, test_index, X_train, y_train,
                   X_test, reg, similarity, hit, test_hit, test_similarity,
                   map_coef, split_print, acc_print, avg_print, outsideDecoder>>

\* Lines 738-749; y_test is Y (line 733).
ScoreFold ==
    /\ pc = "ScoreFold"
    /\ similarity' = cosine_similarity(y_pred, Y)
    /\ test_similarity' = Append(test_similarity, similarity')
    /\ hit' = HitStart + CountHits(similarity')
    /\ acc_print' = Append(acc_print, Frac(100 * hit', NTR))
    /\ test_hit' = Append(test_hit, hit')
    /\ pc' = IF FoldsRemain' THEN "TrainFold" ELSE "Aggregate"
    /\ UNCHANGED <<sub_data, target_z, numpy_ragged, argsort_ties, fmri_data,
                   X, Y, err, train_index, test_index, X_train, y_train,
                   X_test, reg, y_pred, map_coef, split_print, avg_print,
                   outsideDecoder>>

\* The coefficients of the last fold in place of the mean.
MeanCoef_lastFold(coefs) == coefs[Len(coefs)]

\* np.mean(list of coefficient matrices, axis=0)
MeanCoef(coefs) ==
    [d \in 1..Len(coefs[1]) |->
        LET S[k \in 0..Len(coefs)] ==
                IF k = 0 THEN <<0, 1>> ELSE FracAdd(S[k - 1], coefs[k][d])
        IN  Frac(S[Len(coefs)][1], S[Len(coefs)][2] * Len(coefs))]

\* Lines 750-755.
Aggregate ==
    /\ pc = "Aggregate"
    /\ avg_print' = Frac(100 * SeqSum(test_hit), NTR * Len(test_hit))
    /\ map_coef' = MeanCoef(map_coef)
    /\ pc' = "Done"
    /\ UNCHANGED <<sub_data, target_z, numpy_ragged, argsort_ties, fmri_data,
                   X, Y, err, train_index, test_index, X_train, y_train,
                   X_test, reg, y_pred, similarity, hit, test_hit,
                   test_similarity, split_print, acc_print, outsideDecoder>>

Init ==
    InitDecoder /\ TextIdle /\ BaselineIdle /\ LoaderIdle
        /\ fold_order = Ascending

Next == LoadFmri \/ Start \/ TrainFold \/ PredictFold \/ ScoreFold \/ Aggregate

Spec == Init /\ [][Next]_vars

\* The decoder cell (lines 714-755) is run a second time on the same
\* fmri_data and paranoia_embedding: the names of the first run keep their
\* values until they are assigned again, the cell's output starts empty.
Rerun ==
    /\ pc = "Done" /\ ~first_run.done
    /\ first_run' = [done |-> TRUE, split_print |-> split_print,
                     acc_print |-> acc_print, test_hit |-> test_hit]
    /\ split_print' = <<>> /\ acc_print' = <<>> /\ avg_print' = Unset
    /\ pc' = "Idle"
    /\ UNCHANGED <<sub_data, target_z, numpy_ragged, argsort_ties, fmri_data,
                   X, Y, err, train_index, test_index, X_train, y_train,
                   X_test, reg, y_pred, similarity, hit, test_hit,
                   test_similarity, map_coef, tvars, bvars, svars, cvars,
                   fold_order, lvars,
                   avars>>

NextRerun == Next \/ Rerun

SpecRerun == Init /\ [][NextRerun]_vars

\* The loop body run for the folds in any order, as a reimplementation
\* that hands the folds to workers would, on inputs of the shape the loop
\* is written for.
InitAnyOrder ==
    /\ InitDecoder /\ TextIdle /\ BaselineIdle /\ LoaderIdle
    /\ \A s \in 1..NSub :
           sub_data[s] \in {XSeries("odd", NTR), XSeries("first", NTR)}
    /\ Len(target_z) = NTR
    /\ fold_order \in permutation(NSub)

SpecAnyOrder == InitAnyOrder /\ [][Next]_vars

Phases == {"Load", "Idle", "TrainFold", "PredictFold", "ScoreFold",
           "Aggregate", "Done", "Failed"}

\* The run moves on: it is at neither of its two ends and its position
\* changes.  Every action above is enabled whenever pc has its value and
\* every one of them changes pc.
Advance == pc \notin {"Done", "Failed"} /\ pc' \in Phases \ {pc}

\* The notebook runs its cells to the end or to an exception: a run that
\* can move on is not put off for ever.
FairSpec == Spec /\ WF_pc(Advance)

(***************************************************************************)
(* Transcript pipeline: configuration and inputs                           *)
(***************************************************************************)
\* Onsets and durations are whole numbers of ticks; TicksPerSec ticks make
\* one second (one TR).
TicksPerSec == 2
\* The embedding dimension (100 for glove.6B.100d, line 699), scaled down.
n_feature == 2
\* Number of samples of the haemodynamic response kernel (line 647); like
\* the real kernel it is longer than the pad at the end of the signal.
HrfLen == 4

\* Line 548, in seconds.
run_duration == <<526, 452, 332>>
\* Line 553: the stimulus starts 3 s into each run.
StartDelay == 3
\* Line 691: rows of zeros before and after the interpolated signal.
PrePad == 5
PostPad == 2
\* Line 698.
n_TR == 1310

Secs(n) == n * TicksPerSec

\* A text is the sequence of its characters.
Lower == {"a", "b", "s"}
Upper == {"A", "B", "S"}

Row(onset, text) == [onset |-> onset, duration |-> 1, text |-> text]

\* Transcript files the runs are read from; onsets in ticks from the start
\* of the run's stimulus.
TwoWords     == <<Row(0, <<"A">>), Row(3, <<"b", "-">>)>>
FirstUnknown == <<Row(1, <<"a", "b">>), Row(5, <<"a", " ", "b">>)>>
EmptyToken   == <<Row(1, <<"a", "'", "s">>), Row(7, <<"1">>)>>
OnlyUnknown  == <<Row(2, <<"a", "b">>)>>
OneWord      == <<Row(1, <<"b">>)>>
SameOnset    == <<Row(5, <<"a">>), Row(5, <<"B">>)>>
\* a word spoken after the configured duration of run r
Overrun(r)   == <<Row(Secs(run_duration[r] + 4), <<"A">>)>>

\* a file without the onset column
NoOnset      == <<[duration |-> 1, text |-> <<"a">>]>>

RunFileChoices(r) ==
    CASE r = 1 -> {TwoWords, FirstUnknown, EmptyToken, OnlyUnknown, Overrun(1)}
      [] r = 2 -> {TwoWords, OnlyUnknown, OneWord, NoOnset}
      [] r = 3 -> {TwoWords, EmptyToken, OnlyUnknown, SameOnset}

\* A numpy value: a one-dimensional array, or a scalar (ndim 0).
Array(v) == [ndim |-> 1, data |-> v]
Scalar(x) == [ndim |-> 0, data |-> <<x>>]

\* The vectors of the table's tokens.
GloveVector(tok) ==
    [d \in 1..n_feature |->
        CASE tok = <<"a">>      -> d
          [] tok = <<"b">>      -> IF d = 1 THEN -1 ELSE 0
          [] tok = <<"'", "s">> -> 1]

GloveTokens == {<<"a">>, <<"b">>, <<"'", "s">>}

\* The loaded table.  Loaded from a URL whose text ends in a newline, the
\* table also maps the empty token to an empty vector (lines 501-504).
GloveTable(withEmptyKey) ==
    [tok \in GloveTokens \cup (IF withEmptyKey THEN {<<>>} ELSE {}) |->
        IF tok = <<>> THEN Array(<<>>) ELSE Array(GloveVector(tok))]

\* The table of an embedding file of another dimension than n_feature
\* (glove.6B comes in 50, 100, 200 and 300 dimensions).
WideTable ==
    [tok \in GloveTokens |-> Array(GloveVector(tok) \o <<1>>)]

(***************************************************************************)
(* Transcript pipeline: functions                                          *)
(***************************************************************************)
ToLower(c) ==
    CASE c = "A" -> "a" [] c = "B" -> "b" [] c = "S" -> "s" [] OTHER -> c

\* A cleaning that forgets to lower-case.
clean_text_keepsCase(text) ==
    SelectSeq(text, LAMBDA c : c \in Lower \cup Upper \cup {" ", "'"})

\* Line 546: re.sub(r"[^A-Za-z ']+", '', text).lower()
clean_text(text) ==
    LET kept == SelectSeq(text,
                    LAMBDA c : c \in Lower \cup Upper \cup {" ", "'"})
    IN  [k \in 1..Len(kept) |-> ToLower(kept[k])]

\* An offset that counts only the run just before r.
RunOffset_lastOnly(r) ==
    StartDelay + (IF r = 1 THEN 0 ELSE run_duration[r - 1])

\* The offset line 553-558 add to the onsets of a run, in seconds.
RunOffset(r) ==
    StartDelay + (CASE r = 1 -> 0
                    [] r = 2 -> run_duration[1]
                    [] r = 3 -> run_duration[1] + run_duration[2])

\* A shift that leaves out the durations of the earlier runs.
ShiftRun_delayOnly(file, r) ==
    [k \in 1..Len(file) |-> [file[k] EXCEPT !.onset = @ + Secs(StartDelay)]]

\* Lines 552-558 for one run file.
ShiftRun(file, r) ==
    [k \in 1..Len(file) |->
        [file[k] EXCEPT !.onset = @ + Secs(RunOffset(r))]]

RECURSIVE SplitSpaces(_, _)
\* the maximal runs of non-blank characters of w (cur: the run being read)
SplitSpaces(w, cur) ==
    LET done == IF cur = <<>> THEN <<>> ELSE <<cur>>
    IN  IF w = <<>> THEN done
        ELSE IF Head(w) = " " THEN done \o SplitSpaces(Tail(w), <<>>)
        ELSE SplitSpaces(Tail(w), Append(cur, Head(w)))

\* The Treebank rule that splits a final 's or ' off a token.
SplitClitic(tok) ==
    LET n == Len(tok)
    IN  IF n >= 3 /\ tok[n - 1] = "'" /\ tok[n] = "s" /\ tok[n - 2] # "'"
        THEN <<SubSeq(tok, 1, n - 2), <<"'", "s">>>>
        ELSE IF n >= 2 /\ tok[n] = "'" /\ tok[n - 1] # "'"
        THEN <<SubSeq(tok, 1, n - 1), <<"'">>>>
        ELSE <<tok>>

\* nltk.word_tokenize on a cleaned word (letters, blanks, apostrophes).
word_tokenize(word) ==
    LET parts == SplitSpaces(word, <<>>)
    IN  Flatten([k \in 1..Len(parts) |-> SplitClitic(parts[k])])

\* np.sum(list of arrays, axis=0); of an empty list it is the scalar 0.0.
NpSum(arrays) ==
    IF arrays = <<>> THEN Scalar(0)
    ELSE Array([d \in 1..Len(arrays[1].data) |->
                   SeqSum([k \in 1..Len(arrays) |-> arrays[k].data[d]])])

\* Lines 586-597 for one word: the vector put on the timeline, or "miss"
\* when both lookups raise KeyError.
Lookup(table, word) ==
    IF word \in DOMAIN table THEN table[word]
    ELSE LET split_word == word_tokenize(word)
         IN  IF \A k \in 1..Len(split_word) : split_word[k] \in DOMAIN table
             THEN NpSum([k \in 1..Len(split_word) |-> table[split_word[k]]])
             ELSE [ndim |-> 0 - 1, data |-> <<>>]

IsMiss(v) == v.ndim < 0

\* Line 602 and pd.DataFrame(word_embedding), for a list whose first
\* element is an array: one row per retained word, short rows filled with
\* NaN; a scalar among the arrays is not iterable.
FrameError(embs) ==
    IF \E k \in 1..Len(embs) : embs[k].ndim = 0 THEN "TypeError" ELSE None

FrameColumns(embs) ==
    LET W[k \in 0..Len(embs)] ==
            IF k = 0 THEN 0
            ELSE IF Len(embs[k].data) > W[k - 1] THEN Len(embs[k].data)
            ELSE W[k - 1]
    IN  W[Len(embs)]

DataFrame(times, embs) ==
    [k \in 1..Len(times) |->
        [onset |-> times[k].onset,
         word  |-> times[k].word,
         vec   |-> [d \in 1..FrameColumns(embs) |->
                      IF d <= Len(embs[k].data)
                      THEN <<embs[k].data[d], 1>> ELSE FNaN]]]

\* The row numbers of df in ascending order of onset, equal onsets in
\* their order of appearance (interp1d sorts with a stable sort).
SortedByOnset(df) ==
    LET before(i, j) ==
            \/ df[i].onset < df[j].onset
            \/ df[i].onset = df[j].onset /\ i < j
    IN  [k \in 1..Len(df) |->
            CHOOSE i \in 1..Len(df) :
                Cardinality({j \in 1..Len(df) : before(j, i)}) = k - 1]

MinOnset(df) ==
    CHOOSE x \in {df[k].onset : k \in 1..Len(df)} :
        \A k \in 1..Len(df) : x <= df[k].onset

MaxOnset(df) ==
    CHOOSE x \in {df[k].onset : k \in 1..Len(df)} :
        \A k \in 1..Len(df) : x >= df[k].onset

\* A sample count that rounds the span down.
ArangeCount_truncated(lo, hi) ==
    IF hi <= lo THEN 0 ELSE (hi - lo) \div TicksPerSec

\* How many samples np.arange(lo, hi, 1) has, lo and hi in ticks, the
\* step one second: the least n with lo + n seconds >= hi.
ArangeCount(lo, hi) ==
    IF hi <= lo THEN 0
    ELSE (hi - lo + TicksPerSec - 1) \div TicksPerSec

\* Line 688: the sample times, in ticks.
TRTimes(df) ==
    [k \in 1..ArangeCount(MinOnset(df), MaxOnset(df)) |->
        MinOnset(df) + (k - 1) * TicksPerSec]

\* y_lo + slope * (t - x_lo) as interp1d computes it; a segment of length
\* 0 gives 0 * inf, which is NaN.
InterpValue(ylo, yhi, num, den) ==
    IF den = 0 \/ IsNaNF(ylo) \/ IsNaNF(yhi) THEN FNaN
    ELSE LET rise == FracAdd(yhi, <<0 - ylo[1], ylo[2]>>)
             g1   == Gcd(rise[1], den)
             g2   == Gcd(num, rise[2])
         IN  FracAdd(ylo,
                     Frac((rise[1] \div g1) * (num \div g2),
                          (rise[2] \div g2) * (den \div g1)))

\* Lines 687-689: linear interpolation of every column at the sample times.
Interpolate(df) ==
    LET ord == SortedByOnset(df)
        n   == Len(df)
        xs  == [k \in 1..n |-> df[ord[k]].onset]
        ys  == [k \in 1..n |-> df[ord[k]].vec]
        tr  == TRTimes(df)
        \* np.searchsorted(xs, t), clipped to 1..n-1
        seg(t) ==
            LET below == Cardinality({k \in 1..n : xs[k] < t})
            IN  IF below < 1 THEN 1 ELSE IF below > n - 1 THEN n - 1 ELSE below
    IN  [k \in 1..Len(tr) |->
            LET lo == seg(tr[k])
            IN  [d \in 1..Len(ys[1]) |->
                    InterpValue(ys[lo][d], ys[lo + 1][d],
                                tr[k] - xs[lo], xs[lo + 1] - xs[lo])]]

\* Line 690.
NanToNum(m) ==
    [r \in 1..Len(m) |->
        [d \in 1..Len(m[r]) |-> IF IsNaNF(m[r][d]) THEN <<0, 1>> ELSE m[r][d]]]

ZeroRows(n, width) == [r \in 1..n |-> [d \in 1..width |-> <<0, 1>>]]

\* Line 691; the literal 100 of the trailing block is n_feature.
PadRows(m) == ZeroRows(PrePad, n_feature) \o m \o ZeroRows(PostPad, n_feature)

\* The kernel glover_hrf(1, oversampling=1) of line 647, HrfLen samples:
\* zero at lag 0, then a decaying response.
hrf_weight == [k \in 1..HrfLen |-> IF k = 1 THEN 0 ELSE HrfLen + 1 - k]

\* A convolution that keeps the middle of the full one, as mode='same'
\* does, not its head.
ConvolveHrf_centred(m) ==
    [t \in 1..Len(m) |->
        [d \in 1..Len(m[t]) |->
            LET shift == (HrfLen - 1) \div 2
                S[k \in 0..HrfLen] ==
                    IF k = 0 THEN <<0, 1>>
                    ELSE IF t + shift - k + 1 \in 1..Len(m)
                    THEN FracAdd(S[k - 1],
                                 FracMulInt(m[t + shift - k + 1][d],
                                            hrf_weight[k]))
                    ELSE S[k - 1]
            IN  S[HrfLen]]]

\* np.convolve(x, hrf_weight)[:len(x)] for every column x of m (line 694).
ConvolveHrf(m) ==
    [t \in 1..Len(m) |->
        [d \in 1..Len(m[t]) |->
            LET taps == IF t < HrfLen THEN t ELSE HrfLen
                S[k \in 0..taps] ==
                    IF k = 0 THEN <<0, 1>>
                    ELSE FracAdd(S[k - 1],
                                 FracMulInt(m[t - k + 1][d], hrf_weight[k]))
            IN  S[taps]]]

\* The exception downsample_embeddings raises on df, or None.  minval is
\* the least number of points the installed interp1d accepts for linear
\* interpolation.
DownsampleError(df, minval) ==
    IF Len(df) = 0 THEN "KeyError"
    ELSE IF Len(df) < minval THEN "ValueError"
    ELSE IF Len(df[1].vec) # n_feature THEN "ValueError"
    ELSE None

\* Lines 682-696 with convolve_hrf=True.
downsample_embeddings(df) == ConvolveHrf(PadRows(NanToNum(Interpolate(df))))

(***************************************************************************)
(* Transcript pipeline: actions                                            *)
(***************************************************************************)
\* The decoder at rest, while the transcript pipeline alone is looked at.
DecoderIdle ==
    /\ sub_data = Unset /\ target_z = Unset
    /\ numpy_ragged = "error" /\ argsort_ties = "ascending"
    /\ fmri_data = Unset /\ X = Unset /\ Y = Unset
    /\ pc = "Off" /\ err = None
    /\ train_index = Unset /\ test_index = Unset
    /\ X_train = Unset /\ y_train = Unset /\ X_test = Unset
    /\ reg = NoModel /\ y_pred = Unset /\ similarity = Unset /\ hit = 0
    /\ test_hit = <<>> /\ test_similarity = <<>> /\ map_coef = <<>>
    /\ split_print = <<>> /\ acc_print = <<>> /\ avg_print = Unset
    /\ first_run = NoRun /\ fold_order = Ascending

InitText ==
    /\ run_files \in {<<f1, f2, f3>> : f1 \in RunFileChoices(1),
                                       f2 \in RunFileChoices(2),
                                       f3 \in RunFileChoices(3)}
    /\ pre_glove_100 \in {GloveTable(FALSE), GloveTable(TRUE), WideTable}
    /\ tpc = "ReadRuns" /\ terr = None /\ run = 0
    /\ transcript_runs = <<>> /\ paranoia_transcript = <<>>
    /\ row_i = 0
    /\ word_embedding = <<>> /\ error_keys = <<>> /\ word_time = <<>>
    /\ word_embedding_df = <<>> /\ paranoia_embedding = <<>>
    /\ DecoderIdle /\ BaselineIdle /\ LoaderIdle

\* The exception run_file['onset'] raises on line 553, or None.
ReadError(file) ==
    IF \E k \in 1..Len(file) : "onset" \notin DOMAIN file[k]
    THEN "KeyError" ELSE None

\* Where the loop of line 551 goes after the pass for run r.
AfterRun(r) == IF r = Len(run_duration) THEN "Concat" ELSE "ReadRuns"

\* An exception that is swallowed: the loop goes on with the next run.
AfterError_nextRun(r) == AfterRun(r)

\* Where an exception in the pass for run r leaves the cell: nothing
\* catches it, the cell ends.
AfterError(r) == "Failed"

\* The transcript cell ended in the exception of a run it could not read.
ReadAborted == terr = "KeyError" /\ Len(transcript_runs) < Len(run_duration)

\* Lines 551-560, one pass of the loop: run is the run read last.
ReadRun ==
    /\ tpc = "ReadRuns"
    /\ run' = run + 1
    /\ IF ReadError(run_files[run']) # None
       THEN /\ terr' = ReadError(run_files[run'])
            /\ tpc' = AfterError(run')
            /\ UNCHANGED transcript_runs
       ELSE /\ transcript_runs' =
                   Append(transcript_runs, ShiftRun(run_files[run'], run'))
            /\ tpc' = AfterRun(run')
            /\ UNCHANGED terr
    /\ UNCHANGED <<run_files, pre_glove_100, paranoia_transcript, row_i,
                   word_embedding, error_keys, word_time, word_embedding_df,
                   paranoia_embedding, outsideText>>

\* Line 562.
Concat ==
    /\ tpc = "Concat"
    /\ paranoia_transcript' = Flatten(transcript_runs)
    /\ tpc' = "Clean"
    /\ UNCHANGED <<run_files, pre_glove_100, terr, run, transcript_runs,
                   row_i, word_embedding, error_keys, word_time,
                   word_embedding_df, paranoia_embedding, outsideText>>

\* Lines 564 and 578-580.
CleanText ==
    /\ tpc = "Clean"
    /\ paranoia_transcript' =
           [k \in 1..Len(paranoia_transcript) |->
               [onset      |-> paranoia_transcript[k].onset,
                duration   |-> paranoia_transcript[k].duration,
                text       |-> paranoia_transcript[k].text,
                clean_text |-> clean_text(paranoia_transcript[k].text)]]
    /\ word_embedding' = <<>> /\ error_keys' = <<>> /\ word_time' = <<>>
    /\ tpc' = "Lookup"
    /\ UNCHANGED <<run_files, pre_glove_100, terr, run, transcript_runs,
                   row_i, word_embedding_df, paranoia_embedding, outsideText>>

\* The onset is put on the timeline before the lookup raises.
TimeAfterMiss_appended(times, entry) == Append(times, entry)

\* word_time after a row whose lookups raise KeyError: the exceptions
\* leave lines 587-588 and 593-595 before anything is appended.
TimeAfterMiss(times, entry) == times

\* Lines 581-597, one pass of the loop.
LookupRow ==
    /\ tpc = "Lookup"
    /\ LET row  == paranoia_transcript[row_i + 1]
           word == row.clean_text
           v    == Lookup(pre_glove_100, word)
       IN  IF IsMiss(v)
           THEN /\ error_keys' = Append(error_keys, word)
                /\ word_time' =
                       TimeAfterMiss(word_time,
                                     [onset |-> row.onset, word |-> word])
                /\ UNCHANGED word_embedding
           ELSE /\ word_embedding' = Append(word_embedding, v)
                /\ word_time' =
                       Append(word_time, [onset |-> row.onset, word |-> word])
                /\ UNCHANGED error_keys
    /\ row_i' = row_i + 1
    /\ tpc' = IF row_i' = Len(paranoia_transcript) THEN "Frame" ELSE "Lookup"
    /\ UNCHANGED <<run_files, pre_glove_100, terr, run, transcript_runs,
                   paranoia_transcript, word_embedding_df, paranoia_embedding,
                   outsideText>>

\* Lines 599-602.
Frame ==
    /\ tpc = "Frame"
    /\ IF FrameError(word_embedding) # None
       THEN /\ tpc' = "Failed" /\ terr' = FrameError(word_embedding)
            /\ UNCHANGED word_embedding_df
       ELSE /\ word_embedding_df' = DataFrame(word_time, word_embedding)
            /\ tpc' = "Resample" /\ UNCHANGED terr
    /\ UNCHANGED <<run_files, pre_glove_100, run, transcript_runs,
                   paranoia_transcript, row_i, word_embedding, error_keys,
                   word_time, paranoia_embedding, outsideText>>

\* Line 701.
Resample ==
    /\ tpc = "Resample"
    /\ \E minval \in {1, 2} :
           LET e == DownsampleError(word_embedding_df, minval)
           IN  IF e # None
               THEN /\ tpc' = "Failed" /\ terr' = e
                    /\ UNCHANGED paranoia_embedding
               ELSE /\ paranoia_embedding' =
                           downsample_embeddings(word_embedding_df)
                    /\ tpc' = "Done" /\ UNCHANGED terr
    /\ UNCHANGED <<run_files, pre_glove_100, run, transcript_runs,
                   paranoia_transcript, row_i, word_embedding, error_keys,
                   word_time, word_embedding_df, outsideText>>

NextText == ReadRun \/ Concat \/ CleanText \/ LookupRow \/ Frame \/ Resample

SpecText == InitText /\ [][NextText]_vars

(***************************************************************************)
(* Scrambling baseline (lines 805-819)                                     *)
(***************************************************************************)
\* The transcript cells run to their end on files and table: the values
\* of lines 562-602 computed in one go.
CleanedTranscript(files) ==
    LET rows == Flatten([r \in 1..Len(run_duration) |-> ShiftRun(files[r], r)])
    IN  [k \in 1..Len(rows) |->
            [onset      |-> rows[k].onset,
             duration   |-> rows[k].duration,
             text       |-> rows[k].text,
             clean_text |-> clean_text(rows[k].text)]]

Retained(rows, table) ==
    SelectSeq(rows, LAMBDA row : ~IsMiss(Lookup(table, row.clean_text)))

Ignored(rows, table) ==
    SelectSeq(rows, LAMBDA row : IsMiss(Lookup(table, row.clean_text)))

\* Transcripts short enough for every order of their words to be tried.
LateWord == <<Row(3, <<"a">>)>>

ScramFileChoices ==
    {<<f1, f2, f3>> : f1 \in {TwoWords, FirstUnknown, EmptyToken, OnlyUnknown},
                      f2 \in {OnlyUnknown, OneWord},
                      f3 \in {OnlyUnknown, LateWord}}

\* Some installed interp1d accepts both tables.
Resamples(df1, df2) ==
    (\E minval \in {1, 2} :
        /\ DownsampleError(df1, minval) = None
        /\ DownsampleError(df2, minval) = None) = TRUE

\* The state the baseline cell starts in: the transcript cells have run and
\* have returned the embedding timeline.
InitScram ==
    /\ run_files \in ScramFileChoices
    /\ pre_glove_100 \in {GloveTable(FALSE), GloveTable(TRUE)}
    /\ tpc = "Done" /\ terr = None /\ run = Len(run_duration)
    /\ transcript_runs =
           [r \in 1..Len(run_duration) |-> ShiftRun(run_files[r], r)]
    /\ paranoia_transcript = CleanedTranscript(run_files)
    /\ row_i = Len(paranoia_transcript)
    /\ LET kept == Retained(paranoia_transcript, pre_glove_100)
           lost == Ignored(paranoia_transcript, pre_glove_100)
       IN  /\ word_embedding =
                  [k \in 1..Len(kept) |-> Lookup(pre_glove_100, kept[k].clean_text)]
           /\ word_time =
                  [k \in 1..Len(kept) |->
                      [onset |-> kept[k].onset, word |-> kept[k].clean_text]]
           /\ error_keys = [k \in 1..Len(lost) |-> lost[k].clean_text]
    /\ FrameError(word_embedding) = None
    /\ word_embedding_df = DataFrame(word_time, word_embedding)
    /\ Resamples(word_embedding_df, word_embedding_df)
    /\ paranoia_embedding = downsample_embeddings(word_embedding_df)
    /\ bpc = "Scramble"
    /\ word_embedding_scram = <<>> /\ paranoia_embedding_scram = <<>>
    /\ DecoderIdle /\ LoaderIdle /\ LaterIdle

\* Vectors drawn with repetition instead of rearranged.
ScrambleRows_firstPick(df, perm) ==
    [k \in 1..Len(df) |->
        [onset |-> df[k].onset, word |-> df[k].word, vec |-> df[perm[1]].vec]]

\* Lines 811-812: the onset and word columns as they are, beside the
\* vector columns of rows perm[1], perm[2], ... renumbered from the top.
ScrambleRows(df, perm) ==
    [k \in 1..Len(df) |->
        [onset |-> df[k].onset, word |-> df[k].word, vec |-> df[perm[k]].vec]]

\* A scrambling in place: the table itself takes the new order.
FrameAfterScramble_inPlace(df, perm) == ScrambleRows(df, perm)

\* word_embedding after lines 811-812: .loc and .iloc with a list of
\* positions return new frames, reset_index(inplace=False) and pd.concat
\* return new frames; nothing is assigned to word_embedding.
FrameAfterScramble(df, perm) == df

\* Lines 811-812.
ScrambleWords ==
    /\ bpc = "Scramble"
    /\ \E perm \in permutation(Len(word_embedding_df)) :
           /\ word_embedding_scram' = ScrambleRows(word_embedding_df, perm)
           /\ word_embedding_df' = FrameAfterScramble(word_embedding_df, perm)
    /\ bpc' = "Resample"
    /\ UNCHANGED <<paranoia_embedding_scram, dvars, svars, cvars, first_run,
                   fold_order, lvars,
                   avars>>
    /\ UNCHANGED <<run_files, pre_glove_100, tpc, terr, run, transcript_runs,
                   paranoia_transcript, row_i, word_embedding, error_keys,
                   word_time, paranoia_embedding>>

\* Line 815.  The interpolation that accepted word_embedding accepts the
\* scrambled table, which has the same onsets and the same shape.
ResampleScram ==
    /\ bpc = "Resample"
    /\ Resamples(word_embedding_df, word_embedding_scram)
    /\ paranoia_embedding_scram' = downsample_embeddings(word_embedding_scram)
    /\ bpc' = "Decode"
    /\ UNCHANGED <<word_embedding_scram, outsideBaseline>>

NextScram == ScrambleWords \/ ResampleScram

SpecScram == InitScram /\ [][NextScram]_vars

(***************************************************************************)
(* Scrambling baseline: the trials (lines 805-859)                         *)
(***************************************************************************)
\* Number of trials; 20 in the notebook (line 806).
n_iter == 2

\* The loop of line 808 ends one pass early.
TrialsRemain_oneShort == iter' < n_iter - 1

\* range(n_iter), line 808, after a pass: iter' passes are done.
TrialsRemain == iter' < n_iter

\* np.mean of a list of numbers.
Mean(qs) ==
    LET S[k \in 0..Len(qs)] ==
            IF k = 0 THEN <<0, 1>> ELSE FracAdd(S[k - 1], qs[k])
    IN  Frac(S[Len(qs)][1], S[Len(qs)][2] * Len(qs))

\* 100*np.array(hits)/1310
Percent(hits) == [k \in 1..Len(hits) |-> Frac(100 * hits[k], NTR)]

\* The z-scored targets a cell can decode: the time courses of the
\* resampled embedding in its columns, whatever their order in time.
TargetChoices ==
    {YMatrix(p, NTR) : p \in YPatterns \cup {<<"up", "down">>}}

\* The names the three decoding loops share, as one pass leaves them.
loopvars == <<train_index, test_index, X_train, y_train, X_test, reg, y_pred,
              similarity, hit>>

\* What a decoding loop other than the one of line 725 leaves alone.
decoderResults == <<sub_data, target_z, numpy_ragged, argsort_ties, fmri_data,
                    pc, err, split_print, acc_print, avg_print, first_run,
                    fold_order, lvars,
                   avars>>

\* The coefficients kept as line 736 keeps them.
CoefKept_appended(coefs, r) == Append(coefs, r.coef_)

\* map_coef after the fit of a loop that has no line 736.
CoefKept(coefs, r) == coefs

\* Lines 822-831 (950-960): the split of pass f, the training matrices,
\* the fit.
FitFold(f) ==
    LET split == LOOSplit(NSub, fold_order[f])
    IN  /\ train_index' = split.train
        /\ test_index' = split.test
        /\ X_train' = FillX(X, split.train)
        /\ y_train' = FillY(Y, split.train)
        /\ X_test' = X[split.test[1]]
        /\ reg' = LinearRegressionFit(X_train', y_train')
        /\ map_coef' = CoefKept(map_coef, reg')
        /\ UNCHANGED <<y_pred, similarity, hit, X, Y, test_hit,
                       test_similarity>>

\* Line 832 (961).
PredictTest ==
    /\ y_pred' = Predict(reg, X_test)
    /\ UNCHANGED <<train_index, test_index, X_train, y_train, X_test, reg,
                   similarity, hit, X, Y, test_hit, test_similarity,
                   map_coef>>

\* Lines 833-837 (962-969).
ScoreTest ==
    /\ similarity' = cosine_similarity(y_pred, Y)
    /\ hit' = HitStart + CountHits(similarity')
    /\ UNCHANGED <<train_index, test_index, X_train, y_train, X_test, reg,
                   y_pred, X, Y, test_hit, test_similarity, map_coef>>

\* Lines 805-807 and the first pass of line 808.
BaselineBegin ==
    /\ bpc = "Off" /\ tpc = "Done" /\ pc = "Done"
    /\ scram_hit_iter' = <<>> /\ iter' = 0
    /\ bpc' = "Scramble"
    /\ UNCHANGED <<word_embedding_scram, paranoia_embedding_scram, scram_hit,
                   scram_print, scram_points, actual_bar, dvars, tvars,
                   cvars, first_run, fold_order, lvars,
                   avars>>

\* Lines 818-821.  Y is the z-scored paranoia_embedding_scram.
DecodeScram ==
    /\ bpc = "Decode"
    /\ X' = fmri_data
    /\ Y' \in TargetChoices
    /\ scram_hit' = <<>>
    /\ bpc' = "Train"
    /\ UNCHANGED <<loopvars, test_hit, test_similarity, map_coef,
                   decoderResults, tvars, word_embedding_scram,
                   paranoia_embedding_scram, iter, scram_hit_iter,
                   scram_print, scram_points, actual_bar, cvars>>

baselineRest == <<decoderResults, tvars, word_embedding_scram,
                  paranoia_embedding_scram, iter, scram_hit_iter,
                  scram_print, scram_points, actual_bar, cvars>>

\* Lines 822-831.
ScramTrain ==
    /\ bpc = "Train"
    /\ FitFold(Len(scram_hit) + 1)
    /\ bpc' = "Predict"
    /\ UNCHANGED <<scram_hit, baselineRest>>

\* Line 832.
ScramPredict ==
    /\ bpc = "Predict"
    /\ PredictTest
    /\ bpc' = "Score"
    /\ UNCHANGED <<scram_hit, baselineRest>>

\* Lines 833-838.
ScramScore ==
    /\ bpc = "Score"
    /\ ScoreTest
    /\ scram_hit' = Append(scram_hit, hit')
    /\ bpc' = IF Len(scram_hit') < NSub THEN "Train" ELSE "EndTrial"
    /\ UNCHANGED baselineRest

\* Line 839 and the next pass of line 808.
EndTrial ==
    /\ bpc = "EndTrial"
    /\ scram_hit_iter' = Append(scram_hit_iter, Percent(scram_hit))
    /\ iter' = iter + 1
    /\ bpc' = IF TrialsRemain THEN "Scramble" ELSE "Report"
    /\ UNCHANGED <<word_embedding_scram, paranoia_embedding_scram, scram_hit,
                   scram_print, scram_points, actual_bar, dvars, tvars,
                   cvars, first_run, fold_order, lvars,
                   avars>>

\* Lines 841-845 and the plot of lines 849-859.
Report ==
    /\ bpc = "Report"
    /\ scram_print' = Mean(Flatten(scram_hit_iter))
    /\ scram_points' =
           [k \in 1..Len(scram_hit_iter) |-> Mean(scram_hit_iter[k])]
    /\ actual_bar' = Mean(Percent(test_hit))
    /\ bpc' = "Done"
    /\ UNCHANGED <<word_embedding_scram, paranoia_embedding_scram, iter,
                   scram_hit, scram_hit_iter, dvars, tvars, cvars, first_run,
                   fold_order, lvars,
                   avars>>

NextBaseline ==
    \/ BaselineBegin \/ ScrambleWords \/ ResampleScram \/ DecodeScram
    \/ ScramTrain \/ ScramPredict \/ ScramScore \/ EndTrial \/ Report

(***************************************************************************)
(* Words in context (lines 864-998)                                        *)
(***************************************************************************)
\* Line 866: the words of a context, the word itself included.
n_previous_words == 6

\* Longest table of words the context cells are tried on.
MaxWords == 8

\* Line 868: signal.gaussian(13, std=1)[1:7], that is exp(-k*k/2) for
\* k = 5, 4, 3, 2, 1, 0, in millionths.
WindowScale == 1000000
window == <<4, 335, 11109, 135335, 606531, 1000000>>

\* s[-n:]
LastItems(s, n) == SubSeq(s, Len(s) - n + 1, Len(s))

\* weight * value / count for a value of the table, NaN staying NaN.
Weighted(q, weight, count) ==
    IF IsNaNF(q) THEN FNaN ELSE Frac(q[1] * weight, q[2] * WindowScale * count)

NanAdd(p, q) == IF IsNaNF(p) \/ IsNaNF(q) THEN FNaN ELSE FracAdd(p, q)

\* The rows whose vectors pass i of the loop of line 883 adds up, with
\* their weights, both counted from 0 as the loop counts them: the window
\* slides with the word.
ContextTerms_fixedWindow(i) ==
    IF i < n_previous_words
    THEN [w \in 1..(i + 1) |-> [weight |-> window[w], row |-> w - 1]]
    ELSE [w \in 1..n_previous_words |->
             [weight |-> window[w], row |-> i - n_previous_words + w]]

\* Lines 884-891.
ContextTerms(i) ==
    IF i < n_previous_words
    THEN LET weight == LastItems(window, i + 1)
         IN  [w \in 1..(i + 1) |-> [weight |-> weight[w], row |-> w - 1]]
    ELSE [w \in 1..n_previous_words |->
             [weight |-> window[w], row |-> i - n_previous_words + w]]

\* Lines 884-891: np.sum([...], axis=0) / number of words.
ContextVector(df, i) ==
    LET terms == ContextTerms(i)
    IN  [d \in 1..Len(df[1].vec) |->
            LET S[k \in 0..Len(terms)] ==
                    IF k = 0 THEN <<0, 1>>
                    ELSE NanAdd(S[k - 1],
                                Weighted(df[terms[k].row + 1].vec[d],
                                         terms[k].weight, Len(terms)))
            IN  S[Len(terms)]]

\* Lines 881-882.
ContextBegin ==
    /\ cpc = "Off" /\ tpc = "Done"
    /\ word_embedding_context' = <<>>
    /\ cpc' = IF Len(word_embedding_df) = 0 THEN "Frame" ELSE "Rows"
    /\ UNCHANGED <<word_embedding_context_df, paranoia_embedding_context,
                   context_hit, context_print, reg_coef_image, dvars, tvars,
                   bvars, svars, first_run, fold_order, lvars,
                   avars>>

\* Lines 883-891, one pass of the loop.
ContextRow ==
    /\ cpc = "Rows"
    /\ word_embedding_context' =
           Append(word_embedding_context,
                  ContextVector(word_embedding_df, Len(word_embedding_context)))
    /\ cpc' = IF Len(word_embedding_context') = Len(word_embedding_df)
              THEN "Frame" ELSE "Rows"
    /\ UNCHANGED <<word_embedding_context_df, paranoia_embedding_context,
                   context_hit, context_print, reg_coef_image, dvars, tvars,
                   bvars, svars, first_run, fold_order, lvars,
                   avars>>

\* Line 893.
ContextFrame ==
    /\ cpc = "Frame"
    /\ word_embedding_context_df' =
           [k \in 1..Len(word_embedding_df) |->
               [onset |-> word_embedding_df[k].onset,
                word  |-> word_embedding_df[k].word,
                vec   |-> word_embedding_context[k]]]
    /\ cpc' = "Resample"
    /\ UNCHANGED <<word_embedding_context, paranoia_embedding_context,
                   context_hit, context_print, reg_coef_image, dvars, tvars,
                   bvars, svars, first_run, fold_order, lvars,
                   avars>>

\* Line 896.  The interpolation that accepted word_embedding accepts the
\* table of the contexts, which has the same onsets and the same shape.
ContextResample ==
    /\ cpc = "Resample"
    /\ Resamples(word_embedding_df, word_embedding_context_df)
    /\ paranoia_embedding_context' =
           downsample_embeddings(word_embedding_context_df)
    /\ cpc' = "Decode"
    /\ UNCHANGED <<word_embedding_context, word_embedding_context_df,
                   context_hit, context_print, reg_coef_image, dvars, tvars,
                   bvars, svars, first_run, fold_order, lvars,
                   avars>>

contextRest == <<decoderResults, tvars, bvars, svars, word_embedding_context,
                 word_embedding_context_df, paranoia_embedding_context,
                 context_print, reg_coef_image>>

\* Lines 943-949.  Y is the z-scored paranoia_embedding_context.
DecodeContext ==
    /\ cpc = "Decode" /\ pc = "Done"
    /\ X' = fmri_data
    /\ Y' \in TargetChoices
    /\ context_hit' = <<>>
    /\ cpc' = "Train"
    /\ UNCHANGED <<loopvars, test_hit, test_similarity, map_coef,
                   contextRest>>

\* Lines 951-960.
ContextTrain ==
    /\ cpc = "Train"
    /\ FitFold(Len(context_hit) + 1)
    /\ cpc' = "Predict"
    /\ UNCHANGED <<context_hit, contextRest>>

\* Line 961.
ContextPredict ==
    /\ cpc = "Predict"
    /\ PredictTest
    /\ cpc' = "Score"
    /\ UNCHANGED <<context_hit, contextRest>>

\* Lines 962-973.
ContextScore ==
    /\ cpc = "Score"
    /\ ScoreTest
    /\ context_hit' = Append(context_hit, hit')
    /\ cpc' = IF Len(context_hit') < NSub THEN "Train" ELSE "Report"
    /\ UNCHANGED contextRest

\* Lines 974-977 and the first feature's weights of line 998.
ContextReport ==
    /\ cpc = "Report"
    /\ context_print' = Mean(Percent(context_hit))
    /\ reg_coef_image' = map_coef[1]
    /\ cpc' = "Done"
    /\ UNCHANGED <<word_embedding_context, word_embedding_context_df,
                   paranoia_embedding_context, context_hit, dvars, tvars,
                   bvars, svars, first_run, fold_order, lvars,
                   avars>>

\* A transcript of n words at the onsets of a reading aloud, run 1.
Story(ws) == [k \in 1..Len(ws) |-> Row(2 * k, ws[k])]

\* The transcript cells have run to their end on run_files and
\* pre_glove_100.
TranscriptDone ==
    /\ tpc = "Done" /\ terr = None /\ run = Len(run_duration)
    /\ transcript_runs =
           [r \in 1..Len(run_duration) |-> ShiftRun(run_files[r], r)]
    /\ paranoia_transcript = CleanedTranscript(run_files)
    /\ row_i = Len(paranoia_transcript)
    /\ LET kept == Retained(paranoia_transcript, pre_glove_100)
           lost == Ignored(paranoia_transcript, pre_glove_100)
       IN  /\ word_embedding =
                  [k \in 1..Len(kept) |->
                      Lookup(pre_glove_100, kept[k].clean_text)]
           /\ word_time =
                  [k \in 1..Len(kept) |->
                      [onset |-> kept[k].onset, word |-> kept[k].clean_text]]
           /\ error_keys = [k \in 1..Len(lost) |-> lost[k].clean_text]
    /\ FrameError(word_embedding) = None
    /\ word_embedding_df = DataFrame(word_time, word_embedding)
    /\ Resamples(word_embedding_df, word_embedding_df)
    /\ paranoia_embedding = downsample_embeddings(word_embedding_df)

\* The context cells of lines 881-896 on tables of up to MaxWords words.
InitContext ==
    /\ \E n \in 1..MaxWords :
           \E ws \in [1..n -> {<<"a">>, <<"b">>}] :
               run_files = <<Story(ws), OnlyUnknown, OnlyUnknown>>
    /\ pre_glove_100 = GloveTable(FALSE)
    /\ TranscriptDone
    /\ DecoderIdle /\ BaselineIdle /\ LoaderIdle

NextContext == ContextBegin \/ ContextRow \/ ContextFrame \/ ContextResample

SpecContext == InitContext /\ [][NextContext]_vars

(***************************************************************************)
(* The cells in the order of the notebook                                  *)
(***************************************************************************)
\* The transcripts and the recordings the whole notebook is run on: every
\* cell runs to its end on them.
InitNotebook ==
    /\ run_files \in {<<TwoWords, OnlyUnknown, OnlyUnknown>>,
                      <<Story(<< <<"a">>, <<"b">>, <<"a">> >>), OnlyUnknown,
                        OnlyUnknown>>}
    /\ pre_glove_100 = GloveTable(FALSE)
    /\ tpc = "ReadRuns" /\ terr = None /\ run = 0
    /\ transcript_runs = <<>> /\ paranoia_transcript = <<>>
    /\ row_i = 0
    /\ word_embedding = <<>> /\ error_keys = <<>> /\ word_time = <<>>
    /\ word_embedding_df = <<>> /\ paranoia_embedding = <<>>
    /\ DecoderIdle /\ BaselineIdle /\ LoaderIdle

\* Line 452 follows the imports.
OpenRecordings ==
    /\ pc = "Off" /\ tpc = "ReadRuns" /\ run = 0
    /\ \E p \in {"odd", "first"} :
           sub_data' = [s \in 1..NSub |->
                           XSeries(IF s = 1 THEN p ELSE "odd", NTR)]
    /\ target_z' \in TargetChoices
    /\ pc' = "Load"
    /\ UNCHANGED <<numpy_ragged, argsort_ties, fmri_data, X, Y, err, loopvars,
                   test_hit, test_similarity, map_coef, split_print,
                   acc_print, avg_print, outsideDecoder>>

\* The cells run from the top: the recordings are loaded (452-459) before
\* the transcripts are read (550-701), the decoder (714-755) comes next,
\* then the baseline (805-859) and the words in context (864-998).
NextNotebook ==
    \/ OpenRecordings
    \/ LoadFmri
    \/ (pc = "Idle" /\ NextText)
    \/ (tpc = "Done" /\
           (Start \/ TrainFold \/ PredictFold \/ ScoreFold \/ Aggregate))
    \/ NextBaseline
    \/ (bpc = "Done" /\ NextContext)
    \/ DecodeContext \/ ContextTrain \/ ContextPredict \/ ContextScore
    \/ ContextReport

SpecNotebook == InitNotebook /\ [][NextNotebook]_vars

BaselinePhases == {"Off", "Scramble", "Resample", "Decode", "Train",
                   "Predict", "Score", "EndTrial", "Report", "Done"}

\* The baseline cell moves on: it has begun, it is not at its end and its
\* position changes.  Every action of the cell is enabled whenever bpc has
\* its value and every one of them changes bpc.
AdvanceBaseline ==
    bpc \notin {"Off", "Done"} /\ bpc' \in BaselinePhases \ {bpc}

\* The notebook runs a cell to its end: a baseline that can move on is
\* not put off for ever.
FairNotebook == SpecNotebook /\ WF_bpc(AdvanceBaseline)

(***************************************************************************)
(* Functional alignment (lines 82-284)                                     *)
(***************************************************************************)
\* Number of subject directories; 16 in the dataset.
MaxFiles == 4

\* Number of subjects the common model is trained on; 15 in the notebook
\* (lines 104 and 281).
NTrain == 2

Scans == {"Part1", "Part2"}

\* The orders a file system may list the subject directories in.
DirOrders ==
    {[k \in 1..MaxFiles |-> ((k + r - 1) % MaxFiles) + 1] : r \in 0..(MaxFiles - 1)}

\* glob.glob(.../fmriprep/*/func/*crop*{scan}*hdf5): the subjects that have
\* a file of the scan, in the order of the directory listing.
glob(scan) == SelectSeq(dir_order, LAMBDA sub : sub \in part_files[scan])

\* Lines 88-93 (263-268): one masked Brain_Data for each file.
LoadFiles(files, scan) ==
    [k \in 1..Len(files) |-> [sub |-> files[k], scan |-> scan]]

\* s[:n]
FirstItems(s, n) == SubSeq(s, 1, IF Len(s) < n THEN Len(s) ELSE n)

\* all_data[:15]
TrainingSlice(data) == FirstItems(data, NTrain)

\* align(data, method='procrustes'): the common model of the subjects in
\* data, and for each of them, in the order of data, the matrix that takes
\* the subject's voxels into it.
align(data) ==
    [common_model |-> {data[k].sub : k \in 1..Len(data)},
     transformation_matrix |-> [k \in 1..Len(data) |-> [sub |-> data[k].sub]]]

\* The state before line 82: the files on the disk.  Every scan has a
\* file of some subject, Part2 of two at least.
InitAlign ==
    /\ part_files \in [Scans -> (SUBSET (1..MaxFiles)) \ {{}}]
    /\ Cardinality(part_files["Part2"]) >= 2
    /\ dir_order \in DirOrders
    /\ apc = "Part2" /\ aerr = None
    /\ file_list = <<>> /\ all_data = <<>> /\ hyperalign = Unset
    /\ new_data = Unset /\ aligned_sub_hyperalignment = Unset
    /\ s16_pt1_hyp_transformed = Unset /\ hyperalign_transformed = <<>>
    /\ DecoderIdle /\ TextIdle /\ LoaderIdle /\ CellsIdle
    /\ bpc = "Off"
    /\ word_embedding_scram = Unset /\ paranoia_embedding_scram = Unset

outsideAlign == <<dvars, tvars, bvars, svars, cvars, first_run, fold_order,
                  lvars>>

\* Lines 82-93.
LoadPart2 ==
    /\ apc = "Part2"
    /\ file_list' = glob("Part2")
    /\ all_data' = LoadFiles(file_list', "Part2")
    /\ apc' = "Align"
    /\ UNCHANGED <<part_files, dir_order, aerr, hyperalign, new_data,
                   aligned_sub_hyperalignment, s16_pt1_hyp_transformed,
                   hyperalign_transformed, outsideAlign>>

\* Line 104.
Hyperalign ==
    /\ apc = "Align"
    /\ hyperalign' = align(TrainingSlice(all_data))
    /\ apc' = "NewSubject"
    /\ UNCHANGED <<part_files, dir_order, aerr, file_list, all_data, new_data,
                   aligned_sub_hyperalignment, s16_pt1_hyp_transformed,
                   hyperalign_transformed, outsideAlign>>

\* Lines 231-235: the new subject is aligned to the common model.
AlignNew ==
    /\ apc = "NewSubject"
    /\ new_data' = all_data[Len(all_data)]
    /\ aligned_sub_hyperalignment' =
           [common_model |-> hyperalign.common_model,
            transformation_matrix |-> [sub |-> new_data'.sub]]
    /\ apc' = "Part1"
    /\ UNCHANGED <<part_files, dir_order, aerr, file_list, all_data,
                   hyperalign, s16_pt1_hyp_transformed,
                   hyperalign_transformed, outsideAlign>>

\* Lines 257-268.
LoadPart1 ==
    /\ apc = "Part1"
    /\ file_list' = glob("Part1")
    /\ all_data' = LoadFiles(file_list', "Part1")
    /\ apc' = "ProjectNew"
    /\ UNCHANGED <<part_files, dir_order, aerr, hyperalign, new_data,
                   aligned_sub_hyperalignment, s16_pt1_hyp_transformed,
                   hyperalign_transformed, outsideAlign>>

\* Lines 272-280.
ProjectNew ==
    /\ apc = "ProjectNew"
    /\ s16_pt1_hyp_transformed' =
           [sub |-> all_data[Len(all_data)].sub, scan |-> "Part1",
            matrix_sub |-> aligned_sub_hyperalignment.transformation_matrix.sub]
    /\ hyperalign_transformed' = <<>>
    /\ apc' = "Project"
    /\ UNCHANGED <<part_files, dir_order, aerr, file_list, all_data,
                   hyperalign, new_data, aligned_sub_hyperalignment,
                   outsideAlign>>

\* Lines 281-284, one pass of the loop.
ProjectNext ==
    /\ apc = "Project"
    /\ LET i == Len(hyperalign_transformed) + 1
           x == TrainingSlice(all_data)[i]
       IN  IF i > Len(hyperalign.transformation_matrix)
           THEN /\ apc' = "Failed" /\ aerr' = "IndexError"
                /\ UNCHANGED hyperalign_transformed
           ELSE /\ hyperalign_transformed' =
                       Append(hyperalign_transformed,
                              [sub |-> x.sub, scan |-> x.scan,
                               matrix_sub |->
                                   hyperalign.transformation_matrix[i].sub])
                /\ apc' = IF i = Len(TrainingSlice(all_data))
                          THEN "Done" ELSE "Project"
                /\ UNCHANGED aerr
    /\ UNCHANGED <<part_files, dir_order, file_list, all_data, hyperalign,
                   new_data, aligned_sub_hyperalignment,
                   s16_pt1_hyp_transformed, outsideAlign>>

NextAlign ==
    \/ LoadPart2 \/ Hyperalign \/ AlignNew \/ LoadPart1 \/ ProjectNew
    \/ ProjectNext

SpecAlign == InitAlign /\ [][NextAlign]_vars

(***************************************************************************)
(* Embedding loader: get_glove_model, lines 486-514                        *)
(***************************************************************************)
\* Longest resource looked at, in lines.
MaxLines == 3

\* A field is the sequence of its characters.  float() accepts these:
Numerals == {<<"0">>, <<"1">>, <<"2">>}

float(field) ==
    CASE field = <<"0">> -> 0 [] field = <<"1">> -> 1 [] field = <<"2">> -> 2

\* Lines of an embedding file: a token and its n_feature values, ...
GoodLine(tok, v) == <<tok>> \o [d \in 1..n_feature |-> v]
\* ... one value missing, one value too many, ...
ShortLine(tok) == <<tok>> \o [d \in 1..(n_feature - 1) |-> <<"1">>]
LongLine(tok) == <<tok>> \o [d \in 1..(n_feature + 1) |-> <<"1">>]
\* ... nothing at all, a value that is no number, a blank at the end.
EmptyLine == <<<<>>>>
BadValueLine(tok) == <<tok>> \o [d \in 1..n_feature |-> <<"x">>]
BlankEndLine(tok) == GoodLine(tok, <<"2">>) \o <<<<>>>>

LineChoices ==
    {GoodLine(<<"a">>, <<"1">>), GoodLine(<<"b">>, <<"2">>),
     ShortLine(<<"a">>), LongLine(<<"b">>), EmptyLine,
     BadValueLine(<<"a">>), BlankEndLine(<<"b">>)}

\* line.split(' '): the fields as they are.
SplitBlank(line) == line

\* line.split(): the fields that are not empty.
SplitWhitespace(line) == SelectSeq(line, LAMBDA f : f # <<>>)

\* page.text.split('\n') (line 500): the lines, and one more, empty, when
\* the text ends with a newline.  Iterating over the file gives the lines.
split_text ==
    IF via_http
    THEN glove_lines \o (IF ends_newline THEN <<EmptyLine>> ELSE <<>>)
    ELSE glove_lines

\* split_line of lines 502 and 507.
split_line(line) ==
    IF via_http THEN SplitBlank(line) ELSE SplitWhitespace(line)

\* The exception lines 503 and 508 raise on the fields, or None.
ParseError(fields) ==
    IF fields = <<>> THEN "IndexError"
    ELSE IF \E k \in 2..Len(fields) : fields[k] \notin Numerals
    THEN "ValueError"
    ELSE None

\* np.array([float(x) for x in split_line[1:]])
ParsedVector(fields) ==
    Array([k \in 1..(Len(fields) - 1) |-> float(fields[k + 1])])

\* d[key] = value
DictSet(d, key, value) ==
    [k \in DOMAIN d \cup {key} |-> IF k = key THEN value ELSE d[k]]

InitLoad ==
    /\ glove_lines \in UNION {[1..n -> LineChoices] : n \in 1..MaxLines}
    /\ ends_newline \in BOOLEAN
    \* a text that does not end with a newline ends with a line that is
    \* not empty
    /\ ends_newline \/ glove_lines[Len(glove_lines)] # EmptyLine
    /\ via_http \in BOOLEAN
    /\ lpc = "Lines" /\ lerr = None /\ line_no = 0
    /\ TextIdle /\ DecoderIdle /\ BaselineIdle

\* Lines 501-503 or 506-508, one pass of the loop.
ParseLine ==
    /\ lpc = "Lines" /\ line_no < Len(split_text)
    /\ LET fields == split_line(split_text[line_no + 1])
       IN  IF ParseError(fields) # None
           THEN /\ lpc' = "Failed" /\ lerr' = ParseError(fields)
                /\ UNCHANGED pre_glove_100
           ELSE /\ pre_glove_100' =
                       DictSet(pre_glove_100, fields[1], ParsedVector(fields))
                /\ UNCHANGED <<lpc, lerr>>
    /\ line_no' = line_no + 1
    /\ UNCHANGED <<glove_lines, ends_newline, via_http, run_files, tpc, terr,
                   run, transcript_runs, paranoia_transcript, row_i,
                   word_embedding, error_keys, word_time, word_embedding_df,
                   paranoia_embedding, dvars, bvars, svars, cvars, first_run, fold_order,
                   avars>>

\* Lines 509 and 514: the loop is over, the table is returned.
ReturnTable ==
    /\ lpc = "Lines" /\ line_no = Len(split_text)
    /\ lpc' = "Returned"
    /\ UNCHANGED <<glove_lines, ends_newline, via_http, lerr, line_no, tvars,
                   dvars, bvars, svars, cvars, first_run, fold_order,
                   avars>>

NextLoad == ParseLine \/ ReturnTable

SpecLoad == InitLoad /\ [][NextLoad]_vars

(***************************************************************************)
(* Decoder: properties                                                     *)
(***************************************************************************)
\* Every subject matrix has as many rows as the target.
ShapesAgree == \A s \in 1..NSub : Len(sub_data[s]) = Len(target_z)

\* The fold in progress has built its training matrices.
FoldBuilt == pc \in {"PredictFold", "ScoreFold"}

\* How often value v occurs in sequence s.
Count(s, v) == Cardinality({k \in 1..Len(s) : s[k] = v})

\* C1: leave-one-subject-out.  The loop runs NSub folds, no subject is held
\* out twice and after the loop every subject has been held out once; in
\* the fold holding out subject i the training indices are the other
\* subjects, each once, and the training design matrix holds exactly the
\* rows of those subjects: every row value occurs in X_train as often as
\* in the other subjects' matrices together, so no row of subject i is
\* added.
C1_LeaveOneOut ==
    /\ Len(split_print) <= NSub
    /\ \A k, l \in 1..Len(split_print) :
           split_print[k].test = split_print[l].test => k = l
    /\ pc \in {"Aggregate", "Done"} =>
           /\ Len(split_print) = NSub
           /\ \A i \in 1..NSub : \E k \in 1..NSub : split_print[k].test = <<i>>
    /\ FoldBuilt /\ ShapesAgree =>
           LET i == test_index[1]
               others == (1..NSub) \ {i}
           IN  /\ test_index = <<Len(test_hit) + 1>>
               /\ Range(train_index) = others
               /\ Len(train_index) = NSub - 1
               /\ X_test = X[i]
               /\ Len(X_train) = (NSub - 1) * Len(target_z)
               /\ \A v \in {0, 1} :
                      Count(X_train, v) =
                          SeqSum([j \in 1..NSub |->
                                     IF j = i THEN 0 ELSE Count(X[j], v)])

\* C1 witness: the fold holding out subject 2 is built, and subject 2's
\* rows differ from those of both training subjects.
C1_Witness ==
    /\ pc = "PredictFold" /\ ShapesAgree
    /\ test_index = <<2>>
    /\ Count(X[2], 1) # Count(X[1], 1)
    /\ Count(X[2], 1) # Count(X[3], 1)

\* The columns of row t of sim whose similarity is strictly higher than
\* that of column t, and those at least as high.
Above(sim, t) == {c \in 1..Len(sim[t]) : SimLess(sim[t][t], sim[t][c])}
NotBelow(sim, t) ==
    {c \in 1..Len(sim[t]) : c # t /\ ~SimLess(sim[t][c], sim[t][t])}

\* C2: in a scored fold with a T x T similarity matrix, time point t is a
\* hit when fewer than n_top columns of row t are at least as similar as
\* column t, and is no hit when n_top or more columns are strictly more
\* similar; among exactly equal similarities the sort order decides.  The
\* fold's hit count is the number of hits and the printed accuracy is
\* 100 * hits / T per cent.
C2_HitCount ==
    \A k \in 1..Len(test_hit) :
        LET sim == test_similarity[k]
            T   == Len(sim)
            sure == {t \in 1..T : Cardinality(NotBelow(sim, t)) < n_top}
            may  == {t \in 1..T : Cardinality(Above(sim, t)) < n_top}
        IN  /\ Cardinality(sure) <= test_hit[k]
            /\ test_hit[k] <= Cardinality(may)
            /\ T = Len(sim[1]) =>
                   acc_print[k][1] * T = 100 * test_hit[k] * acc_print[k][2]

\* C2 witness: a scored T x T fold in which some time points are hits and
\* some are not, and no tie is involved.
C2_Witness ==
    /\ Len(test_hit) >= 1
    /\ LET sim == test_similarity[1]
       IN  /\ Len(sim) = Len(sim[1])
           /\ test_hit[1] > 0 /\ test_hit[1] < Len(sim)
           /\ \A t \in 1..Len(sim) : Above(sim, t) = NotBelow(sim, t)

\* C3: row alignment.  In every built fold the design matrix has
\* (NSub-1)*T rows and so has the training target; block k of the design
\* matrix is the matrix of the k-th training subject and block k of the
\* training target is Y, row for row.
C3_RowAligned ==
    FoldBuilt /\ ShapesAgree =>
        LET T == Len(Y)
        IN  /\ Len(X_train) = (NSub - 1) * T
            /\ Len(y_train) = (NSub - 1) * T
            /\ \A k \in 1..(NSub - 1) : \A r \in 1..T :
                   /\ X_train[(k - 1) * T + r] = X[train_index[k]][r]
                   /\ y_train[(k - 1) * T + r] = Y[r]

\* C3 witness: a built fold whose training subjects have different time
\* courses, none of them all zero.
C3_Witness ==
    /\ pc = "ScoreFold" /\ ShapesAgree
    /\ train_index = <<1, 3>>
    /\ X[1] # X[3]
    /\ SeqSum(X[1]) > 0 /\ SeqSum(X[3]) > 0

\* The order of the decoder's phases.
PhaseEdges ==
    {<<"Load", "Idle">>, <<"Idle", "TrainFold">>,
     <<"TrainFold", "PredictFold">>, <<"PredictFold", "ScoreFold">>,
     <<"ScoreFold", "TrainFold">>, <<"ScoreFold", "Aggregate">>,
     <<"Aggregate", "Done">>,
     <<"Load", "Failed">>, <<"TrainFold", "Failed">>}

\* Every subject and the target have the number of rows the loop is
\* written for.
ShapesFit ==
    /\ \A s \in 1..NSub : Len(sub_data[s]) = NTR
    /\ Len(target_z) = NTR

\* C4: the phases follow Idle -> TrainFold -> PredictFold -> ScoreFold ->
\* (next fold or Aggregate) -> Done.  When the fold is about to predict,
\* the regression is the fit of this fold's training matrices; when it is
\* about to be scored, the prediction is this regression applied to the
\* held-out subject; Aggregate runs only when all NSub folds are scored;
\* and on inputs of the expected shape Done is eventually reached.
C4_PhaseOrder ==
    /\ [][pc' # pc => <<pc, pc'>> \in PhaseEdges]_vars
    /\ [](pc = "PredictFold" =>
            /\ reg = LinearRegressionFit(X_train, y_train)
            /\ Len(map_coef) = Len(test_hit) + 1)
    /\ [](pc = "ScoreFold" =>
            /\ y_pred = Predict(reg, X_test)
            /\ Len(map_coef) = Len(test_hit) + 1)
    /\ [](pc \in {"Aggregate", "Done"} =>
            /\ Len(test_hit) = NSub
            /\ Len(test_similarity) = NSub
            /\ Len(acc_print) = NSub)
    /\ [](pc = "Done" => avg_print # Unset)
    /\ (pc = "Load" /\ ShapesFit) ~> (pc = "Done")

\* C4 witness: the decoder is done after NSub scored folds.
C4_Witness == pc = "Done" /\ Len(test_hit) = NSub /\ ShapesFit

\* Some subject's number of time points differs from the target's.
ShapeMismatch == \E s \in 1..NSub : Len(sub_data[s]) # Len(target_z)

\* C5: when some subject's number of time points differs from the
\* target's, no fold is trained, predicted or scored and no fold result
\* (hit count, similarity, coefficients) is recorded.
C5_FailFast ==
    ShapeMismatch =>
        /\ pc \notin {"PredictFold", "ScoreFold", "Aggregate", "Done"}
        /\ reg = NoModel /\ y_pred = Unset /\ similarity = Unset
        /\ test_hit = <<>> /\ test_similarity = <<>> /\ map_coef = <<>>

\* The model fitted in the fold that holds out subject f, from the inputs.
FoldFit(f) ==
    LinearRegressionFit(FillX(X, LOOSplit(NSub, f).train),
                        FillY(Y, LOOSplit(NSub, f).train))

\* The sum of a sequence of fractions.
FracSum(qs) ==
    LET S[k \in 0..Len(qs)] ==
            IF k = 0 THEN <<0, 1>> ELSE FracAdd(S[k - 1], qs[k])
    IN  S[Len(qs)]

\* C12 as stated: after Aggregate the coefficient matrix of every fold is
\* still retained, one per held-out subject.
C12_PerFoldRetained ==
    pc = "Done" =>
        IF Len(map_coef) = NSub
        THEN \A f \in 1..NSub : map_coef[f] = FoldFit(f).coef_
        ELSE FALSE

\* C12, amended: after Aggregate the report holds the mean accuracy over
\* the N folds, and map_coef holds the mean over the folds of the
\* coefficient matrices (one coefficient per target dimension here); of
\* the individual folds only the last one's model is left, in reg.
C12_MeanRetained ==
    pc = "Done" =>
        /\ Len(test_hit) = NSub
        /\ avg_print[1] * NTR * NSub = 100 * SeqSum(test_hit) * avg_print[2]
        /\ Len(map_coef) = Len(Y[1])
        /\ \A d \in 1..Len(map_coef) :
               FracMulInt(map_coef[d], NSub)
                   = FracSum([f \in 1..NSub |-> FoldFit(f).coef_[d]])
        /\ reg = FoldFit(NSub)

\* The folds gave different coefficients, none of them the mean.
C12_Witness ==
    /\ pc = "Done"
    /\ \A f \in 1..NSub : FoldFit(f).coef_ # map_coef
    /\ \E f \in 1..NSub : FoldFit(f).coef_ # FoldFit(1).coef_

\* s is the beginning of t.
IsPrefix(s, t) == Len(s) <= Len(t) /\ \A k \in 1..Len(s) : s[k] = t[k]

FoldSimilarity(f) == cosine_similarity(Predict(FoldFit(f), X[f]), Y)
FoldHits(f) == CountHits(FoldSimilarity(f))

C15_AnyShape ==
    (/\ Len(target_z) >= 2
     /\ \A s \in 1..NSub : Len(sub_data[s]) = Len(target_z))
        => pc # "Failed"

(***************************************************************************)
(* Transcript pipeline: properties                                         *)
(***************************************************************************)
\* The rows read so far, run by run, beside the rows of the files.
RunsRead == 1..Len(transcript_runs)

\* C9: every word of run r gets the onset raw onset + 3 s + the durations
\* of the runs before r (0, 526, 526 + 452 seconds); duration and text are
\* left as read, and the concatenation keeps the rows in the order of the
\* runs.
C9_OnsetShift ==
    LET before == <<0, 526, 526 + 452>>
        shifted(r, k) ==
            [onset    |-> run_files[r][k].onset + Secs(3 + before[r]),
             duration |-> run_files[r][k].duration,
             text     |-> run_files[r][k].text]
        expected(r) == [k \in 1..Len(run_files[r]) |-> shifted(r, k)]
        rawRows ==
            [k \in 1..Len(paranoia_transcript) |->
                [onset    |-> paranoia_transcript[k].onset,
                 duration |-> paranoia_transcript[k].duration,
                 text     |-> paranoia_transcript[k].text]]
    IN  /\ ~ReadAborted => Len(transcript_runs) = run
        /\ \A r \in RunsRead : transcript_runs[r] = expected(r)
        /\ (tpc \notin {"ReadRuns", "Concat"} /\ ~ReadAborted) =>
               rawRows = expected(1) \o expected(2) \o expected(3)

C9_Witness ==
    /\ tpc = "Lookup"
    /\ Len(transcript_runs) = 3
    /\ Len(transcript_runs[3]) = 2
    /\ transcript_runs[3][1].onset = run_files[3][1].onset + Secs(3 + 526 + 452)
    /\ transcript_runs[2][1].onset = run_files[2][1].onset + Secs(3 + 526)

RawIncreasing(r) ==
    \A i, j \in 1..Len(run_files[r]) :
        i < j => run_files[r][i].onset < run_files[r][j].onset

WithinDuration(r) ==
    \A k \in 1..Len(run_files[r]) :
        /\ run_files[r][k].onset >= 0
        /\ run_files[r][k].onset < Secs(run_duration[r])

RunsOrdered(r) ==
    \A i \in 1..Len(transcript_runs[r]), j \in 1..Len(transcript_runs[r + 1]) :
        transcript_runs[r][i].onset < transcript_runs[r + 1][j].onset

\* C10 as stated: whenever the raw onsets increase within each run, every
\* onset of run r+1 is greater than every onset of run r, whatever the raw
\* onsets are relative to the configured durations.
C10_Monotone ==
    \A r \in RunsRead :
        (r + 1 \in RunsRead /\ RawIncreasing(r) /\ RawIncreasing(r + 1))
            => RunsOrdered(r)

\* C10, amended: every onset of run r+1 is greater than every onset of run
\* r provided the raw onsets of both runs are non-negative and less than
\* the configured duration of their run.
C10_MonotoneWithinDuration ==
    \A r \in RunsRead :
        (r + 1 \in RunsRead /\ WithinDuration(r) /\ WithinDuration(r + 1))
            => RunsOrdered(r)

C10_Witness ==
    /\ Len(transcript_runs) = 3
    /\ \A r \in 1..3 : WithinDuration(r) /\ Len(run_files[r]) = 2
    /\ RunsOrdered(1) /\ RunsOrdered(2)

\* A word the table can embed: it has an entry, or it splits into one or
\* more sub-tokens that all have one.
Embeddable(word) ==
    \/ word \in DOMAIN pre_glove_100
    \/ /\ word_tokenize(word) # <<>>
       /\ \A k \in 1..Len(word_tokenize(word)) :
              word_tokenize(word)[k] \in DOMAIN pre_glove_100

ZeroVector(v) == v.data # <<>> /\ \A d \in 1..Len(v.data) : v.data[d] = 0

\* C8: the words looked up so far are split between the timeline and the
\* ignored words: the embeddable ones are on the timeline, in order, each
\* with its onset; the others are among the ignored words and have neither
\* an onset nor a vector; no word, the empty one included, is on the
\* timeline with a zero vector.
C8_MissDropped ==
    tpc \in {"Lookup", "Frame", "Resample", "Done", "Failed"} =>
        LET seen == SubSeq(paranoia_transcript, 1, row_i)
            kept == SelectSeq(seen, LAMBDA row : Embeddable(row.clean_text))
            lost == SelectSeq(seen, LAMBDA row : ~Embeddable(row.clean_text))
        IN  /\ word_time = [k \in 1..Len(kept) |->
                              [onset |-> kept[k].onset,
                               word  |-> kept[k].clean_text]]
            /\ error_keys = [k \in 1..Len(lost) |-> lost[k].clean_text]
            /\ Len(word_embedding) = Len(word_time)
            /\ \A k \in 1..Len(word_embedding) :
                   ~ZeroVector(word_embedding[k])

\* The number of rows of the resampled timeline without its padding.
SampledRows == Len(paranoia_embedding) - (PrePad + PostPad)

\* C6 as stated: the resampler returns no timeline whose number of rows
\* differs from n_TR, the number of rows of the neural data.
C6_LengthChecked ==
    tpc = "Done" => Len(paranoia_embedding) = n_TR

\* The first and last onset on the timeline, in ticks.
FirstOnset ==
    CHOOSE x \in {word_time[k].onset : k \in 1..Len(word_time)} :
        \A k \in 1..Len(word_time) : x <= word_time[k].onset

LastOnset ==
    CHOOSE x \in {word_time[k].onset : k \in 1..Len(word_time)} :
        \A k \in 1..Len(word_time) : x >= word_time[k].onset

FloorSecs(t) == t \div TicksPerSec
CeilSecs(t) == (t + TicksPerSec - 1) \div TicksPerSec

\* C7 as stated: the resampler returns ceil(max onset) - floor(min onset)
\* rows plus the 5 + 2 rows of padding.
C7_RowsCeilFloor ==
    tpc = "Done" =>
        Len(paranoia_embedding) =
            CeilSecs(LastOnset) - FloorSecs(FirstOnset) + 5 + 2

\* C7, amended: the resampler returns ceil(max onset - min onset) rows plus
\* the 5 + 2 rows of padding, whatever the number of words dropped by the
\* lookup: the number n of sampled rows is the least with
\* min onset + n seconds >= max onset.
C7_RowsCeilSpan ==
    tpc = "Done" =>
        LET span == LastOnset - FirstOnset
            n    == Len(paranoia_embedding) - (5 + 2)
        IN  /\ n >= 0
            /\ n * TicksPerSec >= span
            /\ n > 0 => (n - 1) * TicksPerSec < span

\* Both extreme onsets fall between whole seconds, words were dropped, and
\* the resampler returned.
C7_Witness ==
    /\ tpc = "Done"
    /\ error_keys # <<>>
    /\ FirstOnset % TicksPerSec # 0
    /\ LastOnset % TicksPerSec # 0
    /\ SampledRows = CeilSecs(LastOnset - FirstOnset)
    /\ SampledRows # CeilSecs(LastOnset) - FloorSecs(FirstOnset)

(***************************************************************************)
(* Scrambling baseline: properties                                         *)
(***************************************************************************)
\* The rows of a matrix, counted with their multiplicity.
RowBag(m) ==
    LET rows == {m[k] : k \in 1..Len(m)}
    IN  [r \in rows |-> Cardinality({k \in 1..Len(m) : m[k] = r})]

\* C11 as stated: the scrambled T x D target has exactly the same multiset
\* of rows as the unscrambled target.  (The target is the column-wise
\* zscore of the timeline, which rearranges with the rows.)
C11_TargetRowPermutation ==
    bpc = "Decode" =>
        RowBag(paranoia_embedding_scram) = RowBag(paranoia_embedding)

\* C11, amended: the scrambled word table has the onsets and the words of
\* the unscrambled one, row for row, and exactly the same multiset of word
\* vectors; the timeline resampled from it has as many rows as the
\* unscrambled timeline.
C11_WordsPermuted ==
    bpc \in {"Resample", "Decode"} =>
        /\ Len(word_embedding_scram) = Len(word_embedding_df)
        /\ \A k \in 1..Len(word_embedding_df) :
               /\ word_embedding_scram[k].onset = word_embedding_df[k].onset
               /\ word_embedding_scram[k].word = word_embedding_df[k].word
        /\ RowBag([k \in 1..Len(word_embedding_scram) |->
                      word_embedding_scram[k].vec])
               = RowBag([k \in 1..Len(word_embedding_df) |->
                            word_embedding_df[k].vec])
        /\ bpc = "Decode" =>
               Len(paranoia_embedding_scram) = Len(paranoia_embedding)

\* A trial whose words changed places and whose timeline is no
\* rearrangement of the unscrambled one.
C11_Witness ==
    /\ bpc = "Decode"
    /\ Len(word_embedding_df) >= 3
    /\ \E k \in 1..Len(word_embedding_df) :
           word_embedding_scram[k].vec # word_embedding_df[k].vec
    /\ RowBag(paranoia_embedding_scram) # RowBag(paranoia_embedding)

(***************************************************************************)
(* Resampler: convolution and padding                                      *)
(***************************************************************************)
\* The signal the resampler convolves: the interpolated rows between their
\* pads (the value of downsampled_vector after line 691).
PaddedSignal == PadRows(NanToNum(Interpolate(word_embedding_df)))

\* Sample j of the full convolution of column d of m with the kernel h:
\* the sum of m[i][d] * h[j - i + 1] over the i for which both exist.
FullConvolveAt(m, d, h, j) ==
    LET lo == IF j - Len(h) + 1 > 1 THEN j - Len(h) + 1 ELSE 1
        hi == IF j < Len(m) THEN j ELSE Len(m)
    IN  FracSum([i \in 1..(hi - lo + 1) |->
                    FracMulInt(m[lo + i - 1][d], h[j - (lo + i - 1) + 1])])

\* C16: the timeline has as many rows as the padded signal; in every
\* dimension its sample t is sample t of the full convolution with the
\* kernel, the sum of kernel[k] * input[t - k] over 0 <= k <= t, which
\* reads no input sample after t; the Len(kernel) - 1 samples of the full
\* convolution after the signal's length are not in the timeline.
C16_CausalConvolution ==
    tpc = "Done" =>
        LET x == PaddedSignal
        IN  /\ Len(paranoia_embedding) = Len(x)
            /\ \A t \in 1..Len(x) :
                   /\ Len(paranoia_embedding[t]) = Len(x[t])
                   /\ \A d \in 1..Len(x[t]) :
                          paranoia_embedding[t][d]
                              = FullConvolveAt(x, d, hrf_weight, t)

\* The resampler returned a timeline in which a sample is the sum of
\* several kernel taps, and the full convolution has a nonzero sample
\* after the signal's length.
C16_Witness ==
    /\ tpc = "Done"
    /\ LET x == PaddedSignal
           n == Len(x)
       IN  /\ \E t \in HrfLen..n : \E d \in 1..n_feature :
                  /\ x[t][d][1] # 0 /\ x[t - 1][d][1] # 0
                  /\ paranoia_embedding[t][d][1] # 0
           /\ \E j \in (n + 1)..(n + HrfLen - 1) : \E d \in 1..n_feature :
                  FullConvolveAt(x, d, hrf_weight, j)[1] # 0

\* C17 as stated: for every embedding table, whatever its dimension D, the
\* resampler given two or more words returns the interpolated rows between
\* 5 rows of D zeros and 2 rows of D zeros: the timeline has 5 + 2 rows
\* more than the interpolated signal, every row has D entries, and the
\* first 5 rows (zeros convolved) are zero.
C17_PadsAnyDimension ==
    (tpc \in {"Done", "Failed"} /\ Len(word_embedding_df) >= 2) =>
        /\ tpc = "Done"
        /\ LET D == Len(word_embedding_df[1].vec)
           IN  /\ Len(paranoia_embedding)
                      = 5 + Len(TRTimes(word_embedding_df)) + 2
               /\ \A t \in 1..Len(paranoia_embedding) :
                      Len(paranoia_embedding[t]) = D
               /\ \A t \in 1..5 : \A d \in 1..D :
                      paranoia_embedding[t][d] = <<0, 1>>

(***************************************************************************)
(* clean_text                                                              *)
(***************************************************************************)
Cleaned == tpc \in {"Lookup", "Frame", "Resample", "Done", "Failed"}

WellFormed(line) ==
    /\ Len(line) = n_feature + 1
    /\ line[1] # <<>>
    /\ \A k \in 2..Len(line) : line[k] \in Numerals

\* C19 as stated: after the loader returns, every token of the table has
\* a vector of exactly n_feature values.
C19_DimensionOfEveryEntry ==
    lpc = "Returned" =>
        \A tok \in DOMAIN pre_glove_100 :
            Len(pre_glove_100[tok].data) = n_feature

\* C20 as stated: a line that is not well-formed is skipped and is not
\* fatal: the loader returns, and the table it returns has the token of
\* every well-formed line of the resource.
C20_MalformedSkipped ==
    lpc \in {"Returned", "Failed"} =>
        /\ lpc = "Returned"
        /\ \A k \in 1..Len(glove_lines) :
               WellFormed(glove_lines[k]) =>
                   glove_lines[k][1] \in DOMAIN pre_glove_100

(***************************************************************************)
(* Transcript normalizer: a file without onsets                            *)
(***************************************************************************)
\* The first run whose file has no onset column has been reached.
MalformedRunReached ==
    \E r \in 1..Len(run_duration) :
        /\ ReadError(run_files[r]) # None
        /\ run >= r

NothingDownstream ==
    /\ paranoia_transcript = <<>>
    /\ word_embedding = <<>> /\ word_time = <<>> /\ error_keys = <<>>
    /\ word_embedding_df = <<>> /\ paranoia_embedding = <<>>
    /\ pc = "Off" /\ test_hit = <<>>

C22_InputsReadOnly ==
    [][/\ pre_glove_100' = pre_glove_100
       /\ (fmri_data # Unset => fmri_data' = fmri_data)
       /\ (X # Unset => X' = X)
       /\ (tpc = "Done" => word_embedding_df' = word_embedding_df)]_vars

\* The whole notebook has run: the lookup loop has looked words up and
\* has missed one, the three decoding loops have run on X, and the last
\* scrambling has put the vectors in another order.
C22_Witness ==
    /\ cpc = "Done" /\ bpc = "Done" /\ iter = n_iter
    /\ error_keys # <<>> /\ Len(word_embedding) > 1
    /\ X = sub_data /\ Len(test_hit) = NSub /\ Len(context_hit) = NSub
    /\ word_embedding_scram # word_embedding_df
    /\ pre_glove_100 = GloveTable(FALSE)

(***************************************************************************)
(* The baseline's trials                                                   *)
(***************************************************************************)
\* The order of the baseline's steps: every trial scrambles, resamples and
\* decodes, every fold is fitted, predicted and scored.
BaselineEdges ==
    {<<"Off", "Scramble">>, <<"Scramble", "Resample">>,
     <<"Resample", "Decode">>, <<"Decode", "Train">>,
     <<"Train", "Predict">>, <<"Predict", "Score">>, <<"Score", "Train">>,
     <<"Score", "EndTrial">>, <<"EndTrial", "Scramble">>,
     <<"EndTrial", "Report">>, <<"Report", "Done">>}

\* C23: the baseline runs n_iter trials and stops.  Every trial starts
\* with a scrambling of its own, which is resampled and decoded with the
\* leave-one-out loop, one fold after the other; a finished trial has NSub
\* fold accuracies; when the baseline is done, n_iter trials are recorded
\* and one mean accuracy is plotted for each; the baseline, once begun,
\* comes to its end.
C23_TrialsRun ==
    /\ [][bpc' # bpc => <<bpc, bpc'>> \in BaselineEdges]_vars
    /\ [][iter' # iter => (bpc = "EndTrial" /\ iter' = iter + 1)]_vars
    /\ [](bpc \notin {"Off", "Report", "Done"} =>
            /\ iter < n_iter
            /\ Len(scram_hit_iter) = iter)
    /\ [](bpc # "Off" =>
            \A t \in 1..Len(scram_hit_iter) : Len(scram_hit_iter[t]) = NSub)
    /\ [](bpc = "EndTrial" => Len(scram_hit) = NSub)
    /\ [](bpc \in {"Report", "Done"} =>
            /\ iter = n_iter
            /\ Len(scram_hit_iter) = n_iter)
    /\ [](bpc = "Done" =>
            /\ Len(scram_points) = n_iter
            /\ \A t \in 1..n_iter :
                   scram_points[t] = Mean(scram_hit_iter[t]))
    /\ (bpc = "Scramble") ~> (bpc = "Done")

\* The baseline is done after n_iter trials whose accuracies differ.
C23_Witness ==
    /\ bpc = "Done" /\ iter = n_iter
    /\ Len(scram_points) = n_iter
    /\ scram_hit_iter[1] # scram_hit_iter[n_iter]

(***************************************************************************)
(* Functional alignment: who is projected with whose matrix                *)
(***************************************************************************)
\* C25: every Part1 recording projected by the loop of line 281 is
\* multiplied by the matrix learned from the Part2 recording of the same
\* subject.
C25_SameParticipant ==
    \A k \in 1..Len(hyperalign_transformed) :
        hyperalign_transformed[k].sub = hyperalign_transformed[k].matrix_sub

\* C26: the subject aligned as the new subject is none of the subjects
\* the common model was trained on.
C26_LastSubjectHeldOut ==
    apc \in {"Part1", "ProjectNew", "Project", "Done", "Failed"} =>
        new_data.sub \notin hyperalign.common_model

(***************************************************************************)
(* Words in context: the window                                            *)
(***************************************************************************)
\* The first of the rows, counted from 1, that the context of row k may
\* draw on: the fifth before it, or the first row of the table.
FirstOfContext(k) ==
    IF k > n_previous_words THEN k - n_previous_words + 1 ELSE 1

\* Entry d of the context of row k of df, by the distance of the words:
\* the word at distance dist before row k weighs
\* window[n_previous_words - dist].
ContextByDistance(df, k, d) ==
    LET first == FirstOfContext(k)
        S[j \in (first - 1)..k] ==
            IF j = first - 1 THEN <<0, 1>>
            ELSE NanAdd(S[j - 1],
                        Weighted(df[j].vec[d],
                                 window[n_previous_words - (k - j)],
                                 k - first + 1))
    IN  S[k]

\* C27: the context of word k is the weighted sum of word k and of the
\* words before it back to the fifth, no later word and no row outside
\* the table; word k itself has the largest weight; the context of word k
\* is the same when the table ends at word k or starts at the fifth word
\* before it; the table of the contexts has one row for every word, with
\* the word's onset and the word as they were.
C27_ContextWindow ==
    /\ cpc \in {"Rows", "Frame", "Resample", "Decode"} =>
           \A k \in 1..Len(word_embedding_context) :
               LET terms == ContextTerms(k - 1)
                   first == FirstOfContext(k)
               IN  /\ Len(terms) = k - first + 1
                   /\ Len(terms) <= n_previous_words
                   /\ \A t \in 1..Len(terms) :
                          /\ terms[t].row + 1 \in first..k
                          /\ terms[t].row + 1 \in 1..Len(word_embedding_df)
                          /\ terms[t].row + 1 = k
                                 <=> t = Len(terms)
                          /\ t # Len(terms) =>
                                 terms[t].weight < terms[Len(terms)].weight
                   /\ \A d \in 1..n_feature :
                          word_embedding_context[k][d] =
                              ContextByDistance(word_embedding_df, k, d)
                   /\ word_embedding_context[k] =
                          ContextVector(SubSeq(word_embedding_df, 1, k), k - 1)
                   /\ word_embedding_context[k] =
                          ContextVector(SubSeq(word_embedding_df, first, k),
                                        k - first)
    /\ cpc \in {"Resample", "Decode"} =>
           /\ Len(word_embedding_context_df) = Len(word_embedding_df)
           /\ \A k \in 1..Len(word_embedding_df) :
                  /\ word_embedding_context_df[k].onset =
                         word_embedding_df[k].onset
                  /\ word_embedding_context_df[k].word =
                         word_embedding_df[k].word
                  /\ word_embedding_context_df[k].vec =
                         word_embedding_context[k]

\* The table of the contexts is built for a table of more than
\* n_previous_words words, not all the same: both branches of the loop
\* have run.
C27_Witness ==
    /\ cpc = "Resample"
    /\ Len(word_embedding_df) > n_previous_words
    /\ Len(word_embedding_context_df) = Len(word_embedding_df)
    /\ word_embedding_df[1].vec # word_embedding_df[Len(word_embedding_df)].vec
    /\ word_embedding_context_df[Len(word_embedding_df)].vec #
           word_embedding_df[Len(word_embedding_df)].vec

(***************************************************************************)
(* The lookup loop: timeline and vectors side by side                      *)
(***************************************************************************)
\* The lookup of line 587 or the retry of line 593 returns a value.
Found(row) == Lookup(pre_glove_100, row.clean_text).ndim >= 0

\* C28: after every row of the lookup loop, word_time and word_embedding
\* have the same length and entry k of the one belongs to entry k of the
\* other: the onset and the word of the k-th row that was found, and the
\* value its lookup returned; every row gone through is either on the
\* timeline or among the ignored words, never both and never neither.
C28_TimelineAligned ==
    tpc \in {"Lookup", "Frame", "Resample", "Done"} =>
        LET seen == SubSeq(paranoia_transcript, 1, row_i)
            kept == SelectSeq(seen, Found)
            lost == SelectSeq(seen, LAMBDA row : ~Found(row))
        IN  /\ Len(word_time) = Len(word_embedding)
            /\ Len(word_time) + Len(error_keys) = row_i
            /\ Len(word_time) = Len(kept)
            /\ \A k \in 1..Len(word_time) :
                   /\ word_time[k].onset = kept[k].onset
                   /\ word_time[k].word = kept[k].clean_text
                   /\ word_embedding[k] =
                          Lookup(pre_glove_100, word_time[k].word)
            /\ error_keys = [k \in 1..Len(lost) |-> lost[k].clean_text]

\* The loop has gone through a transcript with words that are found, a
\* word that is not, and a word found only in its parts.
C28_Witness ==
    /\ tpc = "Frame" /\ row_i = Len(paranoia_transcript)
    /\ Len(word_time) >= 2 /\ Len(error_keys) >= 1
    /\ \E k \in 1..Len(word_time) : word_time[k].word \notin DOMAIN pre_glove_100

(***************************************************************************)
(* Embedding loader: the two paths                                         *)
(***************************************************************************)
\* What get_glove_model does with the resource when it takes the branch of
\* line 497 (http) or of line 505: the exception it ends in, or None and
\* the table it returns.
Outcome(http) ==
    LET lines == IF http
                 THEN glove_lines \o
                          (IF ends_newline THEN <<EmptyLine>> ELSE <<>>)
                 ELSE glove_lines
        fields(line) ==
            IF http THEN SplitBlank(line) ELSE SplitWhitespace(line)
        R[k \in 0..Len(lines)] ==
            IF k = 0 THEN [err |-> None, table |-> <<>>]
            ELSE IF R[k - 1].err # None THEN R[k - 1]
            ELSE IF ParseError(fields(lines[k])) # None
            THEN [err |-> ParseError(fields(lines[k])),
                  table |-> R[k - 1].table]
            ELSE [err |-> None,
                  table |-> DictSet(R[k - 1].table, fields(lines[k])[1],
                                    ParsedVector(fields(lines[k])))]
    IN  R[Len(lines)]

\* C29: when the loader has ended on one path, it would have ended the
\* same way on the other path with the same text: both fail, or both
\* return the same table.
C29_PathsEquivalent ==
    /\ lpc = "Failed" => Outcome(~via_http).err # None
    /\ lpc = "Returned" =>
           /\ Outcome(~via_http).err = None
           /\ Outcome(~via_http).table = pre_glove_100

\* The decoder's results on the unscrambled target, from the recordings and
\* target_z alone: the fit, the hits and the mean coefficients of the folds.
ActualFit(f) ==
    LinearRegressionFit(FillX(fmri_data, LOOSplit(NSub, f).train),
                        FillY(target_z, LOOSplit(NSub, f).train))

ActualHits(f) ==
    CountHits(cosine_similarity(Predict(ActualFit(f), fmri_data[f]),
                                target_z))

ActualCoef == MeanCoef([f \in 1..NSub |-> ActualFit(f).coef_])

\* C30: once the actual decoder has ended, no step of the scrambled
\* baseline or of the context decoder changes test_hit, test_similarity or
\* map_coef; the 'Actual' bar the baseline's plot draws is the mean
\* accuracy of the folds on the unscrambled target and stays so, and the
\* weight map shown at the end is the first row of the mean coefficients
\* fitted to the unscrambled target.
C30_ActualResultsKept ==
    [][/\ pc = "Done" => /\ test_hit' = test_hit
                         /\ test_similarity' = test_similarity
                         /\ map_coef' = map_coef
       /\ bpc = "Report" =>
              /\ Len(test_hit') = NSub
              /\ \A k \in 1..NSub :
                     test_hit'[k] = ActualHits(fold_order[k])
              /\ actual_bar' = Mean(Percent(test_hit'))
       /\ bpc = "Done" => actual_bar' = actual_bar
       /\ cpc = "Report" => reg_coef_image' = ActualCoef[1]]_vars

\* Both later decoders have run on targets other than the unscrambled one:
\* a trial of the baseline scored differently from the actual decoder, and
\* the last fit of the context decoder is not the actual weight map.
C30_Witness ==
    /\ cpc = "Done"
    /\ Y # target_z
    /\ \E k \in 1..Len(scram_hit_iter) : scram_hit_iter[k] # Percent(test_hit)
    /\ reg.coef_ # map_coef
    /\ reg_coef_image = map_coef[1]

====
